---- MODULE Spec2Model ----
(***************************************************************************)
(* Model of the retrieval-augmented answer pipeline of azure-rag-test:     *)
(* the query orchestrator (processFormQuery), the ingestor                 *)
(* (ingestCustomerData), the Redis cache wrapper, the Azure AI Search      *)
(* wrapper and the helpers they use.                                       *)
(*                                                                         *)
(* Strings are sequences of one-character strings.  Numbers that are       *)
(* fractions in the code are integers in thousandths here.                 *)
(***************************************************************************)
EXTENDS Integers, Sequences, FiniteSets, TLC

(***************************************************************************)
(* Strings                                                                 *)
(***************************************************************************)
RECURSIVE Concat(_)
Concat(ss) == IF ss = <<>> THEN <<>> ELSE Head(ss) \o Concat(Tail(ss))

RECURSIVE SeqFilter(_, _)
\* Array.prototype.filter: the elements of s that are in the set keep
SeqFilter(s, keep) ==
  IF s = <<>> THEN <<>>
  ELSE IF Head(s) \in keep THEN <<Head(s)>> \o SeqFilter(Tail(s), keep)
       ELSE SeqFilter(Tail(s), keep)

SeqRange(s) == { s[i] : i \in 1..Len(s) }

Min(a, b) == IF a < b THEN a ELSE b
Max(a, b) == IF a > b THEN a ELSE b

\* the characters the modelled inputs are written in
UpperChars == {"A", "B", "H", "I"}
LowerChars == {"a", "b", "c", "d", "e", "h", "i", "m", "n", "o", "q", "r", "s", "t", "u", "y"}
DigitChars == {"0", "1"}
SpaceChars == {" "}
PunctChars == {"?", ",", ":", "'", ".", "-"}

\* \w of the regular expressions: [A-Za-z0-9_]
WordChars == UpperChars \cup LowerChars \cup DigitChars \cup {"_"}

\* String.prototype.toLowerCase, one character
LowerOf(c) ==
  CASE c = "A" -> "a"
    [] c = "B" -> "b"
    [] c = "H" -> "h"
    [] c = "I" -> "i"
    [] OTHER -> c

toLowerCase(s) == [i \in 1..Len(s) |-> LowerOf(s[i])]

RECURSIVE TrimLeft(_)
TrimLeft(s) ==
  IF s # <<>> /\ Head(s) \in SpaceChars THEN TrimLeft(Tail(s)) ELSE s

RECURSIVE TrimRight(_)
TrimRight(s) ==
  IF s # <<>> /\ s[Len(s)] \in SpaceChars THEN TrimRight(SubSeq(s, 1, Len(s) - 1)) ELSE s

\* String.prototype.trim
trim(s) == TrimRight(TrimLeft(s))

RECURSIVE CollapseSpaces(_)
\* .replace(/\s+/g, ' '): every maximal run of whitespace becomes one space
CollapseSpaces(s) ==
  IF s = <<>> THEN <<>>
  ELSE IF Head(s) \in SpaceChars
       THEN <<" ">> \o CollapseSpaces(TrimLeft(s))
       ELSE <<Head(s)>> \o CollapseSpaces(Tail(s))

\* .replace(/[^\w\s]/g, ''): drop what is neither a word character nor whitespace
StripPunct(s) == SeqFilter(s, { c \in SeqRange(s) : c \in WordChars \/ c \in SpaceChars })

\* normalizeQuery: lower-case, trim, collapse whitespace, strip punctuation, in this order
normalizeQuery(query) == StripPunct(CollapseSpaces(trim(toLowerCase(query))))

\* hashString: SHA-256 in hex; modelled as a collision-free tagging of its input
hashString(input) == <<"sha256", input>>

\* the absent customerId (undefined)
NoScope == <<>>

\* faulty variant: the customer id is left out of the key
KeyBaseWithoutScope(query, customerId) == normalizeQuery(query)

\* faulty variant: the customer id and the query are joined without the colon
KeyBaseUnseparated(query, customerId) == customerId \o normalizeQuery(query)

\* the string that createCacheKey hashes
KeyBase(query, customerId) ==
  IF customerId # NoScope
    THEN customerId \o <<":">> \o normalizeQuery(query)
    ELSE normalizeQuery(query)

\* createCacheKey: `query:${hashString(keyBase)}`
createCacheKey(query, customerId) == <<"query", hashString(KeyBase(query, customerId))>>

\* `customer:${customerId}:indexed`, the ingestion marker
indexedCacheKey(customerId) == <<"customer", customerId, "indexed">>

\* `customer:${customerId}:data`, the customer-data cache
dataCacheKey(customerId) == <<"customer", customerId, "data">>

(***************************************************************************)
(* JSON values of the object store (tagged) and flattenData                *)
(***************************************************************************)
JString(chars) == [t |-> "string", v |-> chars]
JNumber(digits) == [t |-> "number", v |-> digits]
JBool(b) == [t |-> "boolean", v |-> IF b THEN <<"t", "r", "u", "e">> ELSE <<"f", "a", "l", "s", "e">>]
JNull == [t |-> "null"]
JArray(items) == [t |-> "array", items |-> items]
\* an object is the sequence of its entries, in insertion order
JObject(entries) == [t |-> "object", entries |-> entries]
Entry(key, value) == [k |-> key, v |-> value]

\* decimal rendering of an array index
IndexDigits(i) == CASE i = 0 -> <<"0">> [] i = 1 -> <<"1">> [] OTHER -> <<"1", "0">>

RECURSIVE flattenData(_, _)
\* flattenData(data, parentPath): the (path, String(value)) pairs of the
\* string, number and boolean leaves, in document order
flattenData(data, parentPath) ==
  CASE data.t = "array" ->
         Concat([i \in 1..Len(data.items) |->
            flattenData(data.items[i],
                        parentPath \o <<"[">> \o IndexDigits(i - 1) \o <<"]">>)])
    [] data.t = "object" ->
         Concat([i \in 1..Len(data.entries) |->
            flattenData(data.entries[i].v,
                        IF parentPath # <<>>
                          THEN parentPath \o <<".">> \o data.entries[i].k
                          ELSE data.entries[i].k)])
    [] data.t \in {"string", "number", "boolean"} ->
         << [path |-> parentPath, value |-> data.v] >>
    [] OTHER -> <<>>

(***************************************************************************)
(* Tokenizer and chunkText                                                 *)
(***************************************************************************)
\* characters per token of the modelled encoder (tiktoken is external)
TokenChars == 5

\* config.rag.chunkSize and config.rag.chunkOverlap as configured for the model
chunkSize == 2
chunkOverlap == 1

RECURSIVE encode(_)
\* encoder.encode: the text cut into tokens; decoding a token slice gives
\* back the concatenation of its tokens
encode(text) ==
  IF text = <<>> THEN <<>>
  ELSE IF Len(text) <= TokenChars THEN <<text>>
  ELSE <<SubSeq(text, 1, TokenChars)>> \o encode(SubSeq(text, TokenChars + 1, Len(text)))

decode(tokens) == Concat(tokens)

RECURSIVE ChunkFrom(_, _, _, _)
\* the while loop of chunkText from position start (0-based)
ChunkFrom(tokens, start, size, overlap) ==
  IF ~(start < Len(tokens)) THEN <<>>
  ELSE LET end == Min(start + size, Len(tokens))
           decoded == decode(SubSeq(tokens, start + 1, end))
       IN IF end = Len(tokens) THEN <<decoded>>
          ELSE <<decoded>> \o ChunkFrom(tokens, start + size - overlap, size, overlap)

chunkText(text, size, overlap) == ChunkFrom(encode(text), 0, size, overlap)

(***************************************************************************)
(* Staging of index documents (ingestCustomerData, the for loop)           *)
(***************************************************************************)
\* the minimum length of a value that is indexed
MinValueLength == 10

\* faulty variant: every flattened field is chunked and embedded
IndexedFieldsAll(flat) == flat

\* the flattened fields that are chunked and embedded
IndexedFields(flat) ==
  SeqFilter(flat, { f \in SeqRange(flat) : ~(f.value = <<>> \/ Len(f.value) < MinValueLength) })

\* faulty variant: the chunk index is left out of the identifier
ChunkIdWithoutIndex(customerId, path, i) == <<customerId, "-", hashString(path)>>

\* `${customerId}-${hashString(path)}-${i}`
ChunkIdOf(customerId, path, i) == <<customerId, "-", hashString(path), "-", i>>

\* openaiClient.getEmbeddings: one vector per input text
EmbeddingOf(text) == <<"vec", text>>

\* the documents staged for one flattened field
DocumentsOfField(customerId, field) ==
  LET chunks == chunkText(field.value, chunkSize, chunkOverlap)
  IN [i \in 1..Len(chunks) |->
        [id |-> ChunkIdOf(customerId, field.path, i - 1),
         content |-> chunks[i],
         contentVector |-> EmbeddingOf(chunks[i]),
         dataPath |-> field.path,
         customerId |-> customerId,
         chunkId |-> ChunkIdOf(customerId, field.path, i - 1)]]

\* the documents array after the first n indexed fields have been embedded
StagedDocuments(customerId, data, n) ==
  LET fields == IndexedFields(flattenData(data, <<>>))
  IN Concat([k \in 1..n |-> DocumentsOfField(customerId, fields[k])])

NumIndexedFields(data) == Len(IndexedFields(flattenData(data, <<>>)))

\* batchSize of the upsert loop
batchSize == 100

NumBatches(docs) == (Len(docs) + batchSize - 1) \div batchSize

Batch(docs, b) == SubSeq(docs, (b - 1) * batchSize + 1, Min(b * batchSize, Len(docs)))

(***************************************************************************)
(* The OData filter and its evaluation by the search provider              *)
(***************************************************************************)
FieldCustomerId == <<"c", "u", "s", "t", "o", "m", "e", "r", "I", "d">>
OpEq == <<" ", "e", "q", " ">>
OpNe == <<" ", "n", "e", " ">>
KwOr == <<" ", "o", "r", " ">>
KwAnd == <<" ", "a", "n", "d", " ">>
Quote == "'"

\* `customerId eq '${customerId}'`: the id is pasted between the quotes as it is
CustomerFilter(customerId) == FieldCustomerId \o OpEq \o <<Quote>> \o customerId \o <<Quote>>

StartsWith(s, i, w) == i + Len(w) - 1 <= Len(s) /\ SubSeq(s, i, i + Len(w) - 1) = w

RECURSIVE ScanLiteral(_, _, _)
\* the rest of a string literal from position j: '' is an escaped quote
ScanLiteral(s, j, acc) ==
  IF j > Len(s) THEN [ok |-> FALSE, next |-> j, val |-> acc]
  ELSE IF s[j] = Quote
       THEN IF j + 1 <= Len(s) /\ s[j + 1] = Quote
              THEN ScanLiteral(s, j + 2, acc \o <<Quote>>)
              ELSE [ok |-> TRUE, next |-> j + 1, val |-> acc]
       ELSE ScanLiteral(s, j + 1, acc \o <<s[j]>>)

\* customerId (eq|ne) '<literal>' at position i, evaluated on a document
EvalCmp(s, i, doc) ==
  IF ~StartsWith(s, i, FieldCustomerId) THEN [ok |-> FALSE, next |-> i, val |-> FALSE]
  ELSE LET j == i + Len(FieldCustomerId)
           isEq == StartsWith(s, j, OpEq)
           isNe == StartsWith(s, j, OpNe)
           k == j + Len(OpEq)
       IN IF ~(isEq \/ isNe) \/ k > Len(s) \/ s[k] # Quote
            THEN [ok |-> FALSE, next |-> j, val |-> FALSE]
            ELSE LET lit == ScanLiteral(s, k + 1, <<>>)
                 IN [ok |-> lit.ok, next |-> lit.next,
                     val |-> IF isEq THEN doc.customerId = lit.val
                                     ELSE doc.customerId # lit.val]

RECURSIVE EvalAnd(_, _, _)
EvalAnd(s, i, doc) ==
  LET c == EvalCmp(s, i, doc)
  IN IF c.ok /\ StartsWith(s, c.next, KwAnd)
       THEN LET r == EvalAnd(s, c.next + Len(KwAnd), doc)
            IN [ok |-> r.ok, next |-> r.next, val |-> c.val /\ r.val]
       ELSE c

RECURSIVE EvalOr(_, _, _)
EvalOr(s, i, doc) ==
  LET a == EvalAnd(s, i, doc)
  IN IF a.ok /\ StartsWith(s, a.next, KwOr)
       THEN LET r == EvalOr(s, a.next + Len(KwOr), doc)
            IN [ok |-> r.ok, next |-> r.next, val |-> a.val \/ r.val]
       ELSE a

\* the filter is well formed: the provider answers 400 otherwise
FilterValid(filter) ==
  LET r == EvalOr(filter, 1, [customerId |-> <<>>])
  IN r.ok /\ r.next = Len(filter) + 1

\* the provider's verdict on one document; no filter matches every document
FilterMatches(filter, doc) == filter = <<>> \/ EvalOr(filter, 1, doc).val

(***************************************************************************)
(* JSON.stringify / JSON.parse of what the cache stores                    *)
(***************************************************************************)
\* JavaScript numbers, in thousandths; NaN and JSON null are values of their own
Num(n) == [tag |-> "num", milli |-> n]
NaN == [tag |-> "nan", milli |-> 0]
NumNull == [tag |-> "null", milli |-> 0]

\* JSON.stringify of a number: NaN is written as null
StringifyNumber(n) == IF n.tag = "nan" THEN NumNull ELSE n

\* JSON.stringify of a FormQueryResponse followed by JSON.parse
StringifyResponse(r) ==
  [answer |-> r.answer,
   dataPath |-> r.dataPath,
   confidence |-> StringifyNumber(r.confidence),
   sources |-> [i \in 1..Len(r.sources) |->
                  [dataPath |-> r.sources[i].dataPath,
                   score |-> StringifyNumber(r.sources[i].score)]],
   cached |-> r.cached]

\* what a key holds: the text written by setEx and its TTL in seconds
JsonText(kind, value, ttl) == [kind |-> kind, value |-> value, ttl |-> ttl]

\* a value under a key that JSON.parse rejects
GarbageText(ttl) == [kind |-> "garbage", value |-> <<>>, ttl |-> ttl]

\* config.azureRedis.cacheTtl, the default TTL of set
cacheTtl == 3600

\* the TTL of the ingestion marker and of the customer-data cache
DayTtl == 86400

(***************************************************************************)
(* Confidence                                                              *)
(***************************************************************************)
Clamp01(n) == Max(0, Min(1000, n))

\* faulty variant: the quotient is not clamped
normalizeScoreUnclamped(score, max) ==
  IF score.tag # "num" THEN NaN ELSE Num(score.milli \div max)

\* normalizeScore(score, 0, max) for max = 1 or 100
normalizeScore(score, max) ==
  IF score.tag # "num" THEN NaN ELSE Num(Clamp01(score.milli \div max))

\* CONFIDENCE_WEIGHTS, in thousandths
CONFIDENCE_WEIGHTS == [similarity |-> 450, lexical |-> 350, llm |-> 200]

\* calculateConfidence(...).finalConfidence: the weighted sum rounded to 2 decimals
calculateConfidence(avgSimilarityScore, avgLexicalScore, llmScore) ==
  LET s == normalizeScore(avgSimilarityScore, 1)
      l == normalizeScore(avgLexicalScore, 100)
      m == normalizeScore(llmScore, 1)
  IN IF s.tag # "num" \/ l.tag # "num" \/ m.tag # "num" THEN NaN
     ELSE Num(10 * ((CONFIDENCE_WEIGHTS.similarity * s.milli
                       + CONFIDENCE_WEIGHTS.lexical * l.milli
                       + CONFIDENCE_WEIGHTS.llm * m.milli + 5000) \div 10000))

\* faulty variant: the components are reported as normalized, unrounded
confidenceResultUnrounded(avgSimilarityScore, avgLexicalScore, llmScore) ==
  [finalConfidence |-> calculateConfidence(avgSimilarityScore, avgLexicalScore, llmScore),
   components |-> [similarity |-> normalizeScore(avgSimilarityScore, 1),
                   lexical |-> normalizeScore(avgLexicalScore, 100),
                   llm |-> normalizeScore(llmScore, 1)],
   weights |-> CONFIDENCE_WEIGHTS]

\* calculateConfidence(inputs): the ConfidenceResult, whose components are
\* the normalized scores rounded to 2 decimals
confidenceResult(avgSimilarityScore, avgLexicalScore, llmScore) ==
  LET Round2(n) == IF n.tag # "num" THEN NaN ELSE Num(10 * ((n.milli + 5) \div 10))
  IN [finalConfidence |-> calculateConfidence(avgSimilarityScore, avgLexicalScore, llmScore),
      components |-> [similarity |-> Round2(normalizeScore(avgSimilarityScore, 1)),
                      lexical |-> Round2(normalizeScore(avgLexicalScore, 100)),
                      llm |-> Round2(normalizeScore(llmScore, 1))],
      weights |-> CONFIDENCE_WEIGHTS]

(***************************************************************************)
(* Inputs                                                                  *)
(***************************************************************************)
CustA == <<"a">>
\* ' or customerId ne '      (20 characters, accepted by formQuerySchema)
CustQuoted ==
  <<"'", " ", "o", "r", " ", "c", "u", "s", "t", "o", "m", "e", "r", "I", "d",
    " ", "n", "e", " ", "'">>

CustomerIds == {CustA, CustQuoted}

\* a customer the container holds no blob of
CustNone == <<"n">>

\* every customer id of the inputs
Customers == {CustA, CustQuoted, CustNone}

\* the customers of the runs in which the source is edited
IngestScopes == {CustA, CustNone}

\* customerId is optional: a request names no scope or one of the customers
Scopes == {NoScope, CustA, CustQuoted}

\* formQuerySchema: customerId is optional, a string of 1 to 100 characters
ValidCustomerId(c) == c = NoScope \/ (Len(c) >= 1 /\ Len(c) <= 100)

\* "Hi?" and "hi": two texts with one normal form
Questions == { <<"H", "i", "?">>, <<"h", "i">> }

PathBio == <<"b", "i", "o">>

\* the object store: customers/<id>/data.json
InitialBlob ==
  [c \in CustomerIds |->
     CASE c = CustA ->
            JObject(<< Entry(<<"n", "a", "m", "e">>, JString(<<"a", "n", "n">>)),
                       Entry(PathBio, JString(<<"c", "a", "t", "s", " ", "a", "n", "d",
                                                " ", "d", "o", "g">>)) >>)
       [] OTHER -> JObject(<< Entry(<<"k">>, JString(<<"v">>)) >>)]

PathNote == <<"n", "o", "t", "e">>

\* customers/a/data.json after an edit: the bio is gone, a note and a list
\* of tags have come
EditedData ==
  JObject(<< Entry(<<"n", "a", "m", "e">>, JString(<<"a", "n", "n">>)),
             Entry(PathNote, JString(<<"f", "i", "s", "h", " ", "a", "n", "d",
                                       " ", "b", "i", "r", "d", "s">>)),
             Entry(<<"t", "a", "g", "s">>,
                   JArray(<< JString(<<"q", "u", "i", "e", "t", " ", "h", "o", "u", "r", "s">>) >>)) >>)

\* the x-api-key header: absent, the valid key, another text
ApiKeys == {"none", "dev-api-key", "other"}

\* process.env.INGEST_API_KEY || 'dev-api-key'
validApiKey == "dev-api-key"

\* faulty variant: any key that is present is let through
authenticateAnyKey(apiKey) == apiKey # "none"

\* authenticateApiKey: next() is called only for the valid key
authenticateApiKey(apiKey) == apiKey = validApiKey

\* the customerId of the bodies sent to POST /api/ingest
IngestBodyIds == {CustA, <<>>}

\* ingestSchema: customerId is a required string of 1 to 100 characters
ValidIngestBody(c) == Len(c) >= 1 /\ Len(c) <= 100

\* structured completions the model may return
GenOutputs ==
  { [answer |-> <<"o", "k">>, dataPath |-> <<PathBio>>, explanation |-> <<"x">>,
     confidence |-> Num(900)],
    [answer |-> <<"o", "k">>, dataPath |-> <<>>, explanation |-> <<"x">>,
     confidence |-> NaN] }

\* the number of requests one behaviour starts
MaxRequests == 2

Procs == {"p1", "p2"}

(***************************************************************************)
(* State                                                                   *)
(***************************************************************************)
VARIABLES
  cache,      \* Redis: key -> the text stored under it (absent keys are not in the domain)
  index,      \* Azure AI Search: the documents of the index
  blob,       \* the object store: customer id -> data.json
  flags,      \* featureFlags.queryCache and featureFlags.customerDataCache
  proc,       \* the requests in flight, one per task
  started,    \* the number of requests started so far
  written,    \* history: query cache key -> the request and response that wrote it
  ingests,    \* history: per customer id, the ingestions begun and returned so far
  zeroKeys,   \* history: the query cache keys of the requests that found no result
  health,     \* GET /health: the requests in flight, one per task
  pure,       \* the arguments and results of the helpers applied on their own
  redisService, \* the RedisService singleton before its first connection, and its callers
  server      \* the process: its HTTP server, its signal handler and its exit

\* the state the form-query and ingest pipelines leave alone
aside == <<health, pure, redisService, server>>

\* the state of the form-query and ingest pipelines
pipeline == <<cache, index, blob, flags, proc, started, written, ingests, zeroKeys>>

vars == <<cache, index, blob, flags, proc, started, written, ingests, zeroKeys, health, pure,
          redisService, server>>

\* the health object of a request and the progress of its two probes
IdleHealth ==
  [pc |-> "idle", status |-> "ok", redis |-> "unknown", search |-> "unknown",
   redisProbe |-> "none", searchProbe |-> "none",
   reply |-> [code |-> 0, status |-> "none", redis |-> "none", search |-> "none"]]

\* no helper has been applied
NoPure == [op |-> "none"]

\* a RedisService that start() has connected: its connect() returns at once
ConnectedService ==
  [copy |-> "guarded", isConnected |-> TRUE, connectionPromise |-> 0,
   attempts |-> <<"resolved">>, calls |-> 0,
   callers |-> [c \in Procs |-> [pc |-> "idle", op |-> "none", promise |-> 0]]]

\* a process that listens and has received no signal: `server` holds the
\* HTTP server, no close callback is registered, no timer is armed
ListeningServer ==
  [pc |-> "listening", server |-> "open", signals |-> 0, callbacks |-> <<>>,
   timer |-> FALSE, redis |-> "connected", tokenizer |-> "held", log |-> {},
   exitCode |-> -1, exitBy |-> "none"]

\* nothing generated yet
NoGeneration ==
  [answer |-> <<>>, dataPath |-> <<>>, explanation |-> <<>>, confidence |-> [tag |-> "num", milli |-> 0]]

NoResponse ==
  [answer |-> <<>>, dataPath |-> <<>>, confidence |-> Num(0), sources |-> <<>>, cached |-> FALSE]

IdleProc ==
  [kind |-> "idle", pc |-> "idle",
   formQuestion |-> <<>>, customerId |-> NoScope, forceReindex |-> FALSE,
   customerData |-> JNull, embedded |-> 0, documentIds |-> {}, batch |-> 0,
   results |-> <<>>, generated |-> NoGeneration, response |-> NoResponse,
   \* the x-api-key header of an ingest request and the early answer of the route
   apiKey |-> "none", reply |-> "none",
   \* history: the ids deleteByCustomerId has deleted
   deleted |-> {},
   calls |-> <<>>, failedAt |-> "none",
   \* history of the request: what the cache held when it was read, whether
   \* the read command failed, and who wrote the entry that was served
   hit |-> "none", seen |-> "none", lookupFault |-> FALSE,
   origin |-> [customerId |-> NoScope, response |-> NoResponse],
   markerSeen |-> "none", existsFault |-> FALSE,
   \* history of an ingestion: whether customer:<id>:data held a copy when it
   \* was read, and whether it held another copy than the one the blob gave
   dataSeen |-> "none", stale |-> FALSE]

Init ==
  /\ cache = <<>>
  /\ index = {}
  /\ blob = InitialBlob
  /\ flags \in [queryCache : BOOLEAN, customerDataCache : BOOLEAN]
  /\ proc = [p \in Procs |-> IdleProc]
  /\ started = 0
  /\ written = <<>>
  /\ ingests = [c \in Customers |->
                  [begun |-> 0, returned |-> 0, raced |-> FALSE, forced |-> 0]]
  /\ zeroKeys = {}
  /\ health = [h \in Procs |-> IdleHealth]
  /\ pure = NoPure
  /\ redisService = ConnectedService
  /\ server = ListeningServer

(***************************************************************************)
(* The Redis wrapper (RedisService).  The connection is made by start()    *)
(* before the server listens, so every operation finds isConnected true;   *)
(* fault says that the Redis command of this call fails.                   *)
(***************************************************************************)
Has(key) == key \in DOMAIN cache

\* a map with one key set, whether or not the key was there
Put(f, k, v) == [x \in DOMAIN f \cup {k} |-> IF x = k THEN v ELSE f[x]]

\* a map without one key
Drop(f, k) == [x \in DOMAIN f \ {k} |-> f[x]]

\* get<T>(key): the parsed value, null for an absent key and for a text that
\* JSON.parse rejects (SyntaxError is caught); any other error is rethrown
RedisGet(key, fault) ==
  IF fault THEN [threw |-> TRUE, null |-> TRUE, value |-> <<>>]
  ELSE IF ~Has(key) THEN [threw |-> FALSE, null |-> TRUE, value |-> <<>>]
  ELSE IF cache[key].kind = "garbage" THEN [threw |-> FALSE, null |-> TRUE, value |-> <<>>]
  ELSE [threw |-> FALSE, null |-> FALSE, value |-> cache[key].value]

\* exists(key): result === 1, and false when the command fails
RedisExists(key, fault) == IF fault THEN FALSE ELSE Has(key)

\* set(key, value, ttl): setEx(key, ttl || cacheTtl, JSON.stringify(value))
RedisSet(key, kind, value, ttl) ==
  Put(cache, key, JsonText(kind, value, IF ttl # 0 THEN ttl ELSE cacheTtl))

(***************************************************************************)
(* The search wrapper (AzureSearchService)                                 *)
(***************************************************************************)
\* faulty variant: mergeDocuments, which updates the documents that exist and adds none
UploadDocumentsMergeOnly(idx, batch) ==
  { d \in idx : \A i \in 1..Len(batch) : batch[i].id # d.id }
    \cup { d \in SeqRange(batch) : \E e \in idx : e.id = d.id }

\* uploadDocuments: each document replaces the one with its key, or is added;
\* of two documents of the batch under one key the later one stays
UploadDocuments(idx, batch) ==
  { d \in idx : \A i \in 1..Len(batch) : batch[i].id # d.id }
    \cup { batch[i] : i \in { k \in 1..Len(batch) :
                                 \A j \in (k + 1)..Len(batch) : batch[j].id # batch[k].id } }

\* deleteDocuments(ids)
DeleteDocuments(idx, ids) == { d \in idx : d.id \notin ids }

\* config.rag.searchTopK
searchTopK == 5

\* result.score || 0 of every hit, and no rerankerScore
HitScore == 800

RECURSIVE SetToSeq(_)
\* the provider's ranking of a set of hits
SetToSeq(S) ==
  IF S = {} THEN <<>>
  ELSE LET d == CHOOSE x \in S : TRUE IN <<d>> \o SetToSeq(S \ {d})

\* hybridSearch({vector, topK, filter}): the topK best documents the filter lets through
hybridSearch(idx, topK, filter) ==
  LET hits == SetToSeq({ d \in idx : FilterMatches(filter, d) })
  IN [i \in 1..Min(topK, Len(hits)) |->
        [id |-> hits[i].id, content |-> hits[i].content, dataPath |-> hits[i].dataPath,
         customerId |-> hits[i].customerId, score |-> Num(HitScore)]]

(***************************************************************************)
(* retrieveDocuments and extractDataPaths                                  *)
(***************************************************************************)
\* the filter of retrieveDocuments: none without a customerId
RetrievalFilter(customerId) ==
  IF customerId # NoScope THEN CustomerFilter(customerId) ELSE <<>>

RECURSIVE SumScores(_)
SumScores(rs) == IF rs = <<>> THEN 0 ELSE Head(rs).score.milli + SumScores(Tail(rs))

avgSimilarityScore(results) ==
  IF Len(results) > 0
    THEN Num(SumScores(SubSeq(results, 1, Min(3, Len(results)))) \div Min(3, Len(results)))
    ELSE Num(0)

\* a rerankerScore that the provider left out
NoScore == [tag |-> "undefined", milli |-> 0]

\* r.rerankerScore || r.score: the rerankerScore unless it is undefined or 0
\* (the hits of hybridSearch above carry none)
LexicalOf(r) ==
  IF "rerankerScore" \in DOMAIN r /\ r.rerankerScore.tag = "num" /\ r.rerankerScore.milli # 0
    THEN r.rerankerScore.milli
    ELSE r.score.milli

RECURSIVE SumLexical(_)
SumLexical(rs) == IF rs = <<>> THEN 0 ELSE LexicalOf(Head(rs)) + SumLexical(Tail(rs))

avgLexicalScore(results) ==
  IF Len(results) > 0 THEN Num(SumLexical(results) \div Len(results)) ELSE Num(0)

RECURSIVE Unique(_, _)
Unique(s, seen) ==
  IF s = <<>> THEN <<>>
  ELSE IF Head(s) \in seen THEN Unique(Tail(s), seen)
       ELSE <<Head(s)>> \o Unique(Tail(s), seen \cup {Head(s)})

\* faulty variant: the path of every result, repeated as often as it occurs
extractDataPathsAll(results) == [i \in 1..Len(results) |-> results[i].dataPath]

\* extractDataPaths: the unique non-empty paths, in first-occurrence order
extractDataPaths(results) ==
  Unique(SeqFilter([i \in 1..Len(results) |-> results[i].dataPath],
                   { results[i].dataPath : i \in 1..Len(results) } \ {<<>>}), {})

(***************************************************************************)
(* processFormQuery: the responses                                         *)
(***************************************************************************)
\* the key of the lookup and of the store: createCacheKey(normalizeQuery(q), customerId)
QueryCacheKey(formQuestion, customerId) ==
  createCacheKey(normalizeQuery(formQuestion), customerId)

\* faulty variant: the cached value is returned as it was stored
CacheHitResponseUnmarked(cachedResult) == cachedResult

\* { ...cachedResult, cached: true }
CacheHitResponse(cachedResult) == [cachedResult EXCEPT !.cached = TRUE]

\* 'No relevant information found.'
NoInformationAnswer == <<"N", "o", " ", "i", "n", "f", "o">>

NoResultsResponse ==
  [answer |-> NoInformationAnswer, dataPath |-> <<>>, confidence |-> Num(0),
   sources |-> <<>>, cached |-> FALSE]

\* faulty variant: the fresh response is flagged as cached
BuildResponseFlagged(generation, results) ==
  [answer |-> generation.answer,
   dataPath |-> IF Len(generation.dataPath) > 0 THEN generation.dataPath
                ELSE extractDataPaths(results),
   confidence |-> calculateConfidence(avgSimilarityScore(results),
                                      avgLexicalScore(results), generation.confidence),
   sources |-> [i \in 1..Min(5, Len(results)) |->
                  [dataPath |-> results[i].dataPath, score |-> results[i].score]],
   cached |-> TRUE]

\* Step 7: the response built from the generation and the retrieval
BuildResponse(generation, results) ==
  [answer |-> generation.answer,
   dataPath |-> IF Len(generation.dataPath) > 0 THEN generation.dataPath
                ELSE extractDataPaths(results),
   confidence |-> calculateConfidence(avgSimilarityScore(results),
                                      avgLexicalScore(results), generation.confidence),
   sources |-> [i \in 1..Min(5, Len(results)) |->
                  [dataPath |-> results[i].dataPath, score |-> results[i].score]],
   cached |-> FALSE]

\* res.json({success: true, data: result}): what the caller reads
WireResponse(r) == StringifyResponse(r)

(***************************************************************************)
(* Steps of a request.  Every await of the code is one step; a provider    *)
(* call either returns or throws.                                          *)
(***************************************************************************)
Set(p, r) == proc' = [proc EXCEPT ![p] = r]

\* the positions of a request inside ingestCustomerData
IngestPcs ==
  {"ensureIndex", "dataGet", "blobGet", "dataSet", "delSearch", "delDocs", "embed",
   "upload", "ingestReturn"}

\* history: task p begins an ingestion of c
Begun(p, c) ==
  [ingests EXCEPT ![c].begun = @ + 1,
                  ![c].raced = @ \/ \E q \in Procs \ {p} :
                                      proc[q].customerId = c /\ proc[q].pc \in IngestPcs]

\* the customer ids whose ingestion has returned successfully at least once
Ingested == { c \in CustomerIds : ingests[c].returned > 0 }

Called(p, call) == Append(proc[p].calls, call)

\* faulty variant: a failed generation is swallowed and an empty answer is stored
ThrownButGenerationSwallowed(p, call) ==
  IF call = "generate"
    THEN [proc[p] EXCEPT !.pc = "store", !.failedAt = call,
                         !.calls = Append(proc[p].calls, call)]
    ELSE [proc[p] EXCEPT !.pc = "failed", !.failedAt = call,
                         !.calls = Append(proc[p].calls, call),
                         !.response = NoResponse]

\* the catch blocks: the error is rethrown, the caller receives no response
Thrown(p, call) ==
  [proc[p] EXCEPT !.pc = "failed", !.failedAt = call, !.calls = Called(p, call),
                  !.response = NoResponse]

\* where a request goes after a cache miss
AfterLookup(customerId) == IF customerId # NoScope THEN "marker" ELSE "embedQuery"

\* faulty variant: the cached copy is read whatever forceReindex says
AfterEnsureIndexIgnoresForce(forceReindex) ==
  IF flags.customerDataCache THEN "dataGet" ELSE "blobGet"

\* where ingestCustomerData goes after ensureIndex
AfterEnsureIndex(forceReindex) ==
  IF flags.customerDataCache /\ ~forceReindex THEN "dataGet" ELSE "blobGet"

\* faulty variant: the marker is written after every ingestion, also one
\* that the ingest route started
AfterIngestAlwaysMarks(kind) == "markerSet"

\* where ingestCustomerData goes once all batches are indexed: it returns, to
\* the route handler or to processFormQuery
AfterIngest(kind) == IF kind = "query" THEN "markerSet" ELSE "done"

AfterEmbed(r, data) ==
  IF Len(StagedDocuments(r.customerId, data, NumIndexedFields(data))) > 0
    THEN "upload" ELSE "ingestReturn"

\* where ingestCustomerData goes once the old documents are deleted (or kept)
AfterDelete(r, data) ==
  IF NumIndexedFields(data) > 0 THEN "embed" ELSE AfterEmbed(r, data)

\* faulty variant: the old documents are kept whatever forceReindex says
AfterDataKeepsOld(r, data) == AfterDelete(r, data)

\* where ingestCustomerData goes once the customer data is resolved
AfterData(r, data) == IF r.forceReindex THEN "delSearch" ELSE AfterDelete(r, data)

\* POST /api/form-query with a body that formQuerySchema accepts: a question
\* among questions, a customerId among scopes
StartQueryOf(p, questions, scopes) ==
  /\ proc[p].kind = "idle"
  /\ started < MaxRequests
  /\ \E q \in questions, c \in scopes :
       /\ ValidCustomerId(c)
       /\ Set(p, [IdleProc EXCEPT !.kind = "query", !.formQuestion = q, !.customerId = c,
                                  !.pc = IF flags.queryCache THEN "lookup"
                                         ELSE AfterLookup(c)])
  /\ started' = started + 1
  /\ UNCHANGED <<cache, index, blob, flags, written, ingests, zeroKeys, aside>>

StartQuery(p) == StartQueryOf(p, Questions, Scopes)

\* POST /api/ingest with the API key and a body that ingestSchema accepts, for
\* a customerId among scopes
StartIngestOf(p, scopes) ==
  /\ proc[p].kind = "idle"
  /\ started < MaxRequests
  /\ \E key \in ApiKeys, c \in scopes, force \in BOOLEAN :
       /\ authenticateApiKey(key)
       /\ ValidIngestBody(c)
       /\ Set(p, [IdleProc EXCEPT !.kind = "ingest", !.customerId = c, !.apiKey = key,
                                  !.forceReindex = force, !.pc = "ensureIndex"])
       /\ ingests' = Begun(p, c)
  /\ started' = started + 1
  /\ UNCHANGED <<cache, index, blob, flags, written, zeroKeys, aside>>

StartIngest(p) == StartIngestOf(p, CustomerIds)

\* faulty variant: a hit does not return, the request goes on as after a miss
CacheLookupGoesOn(p) ==
  /\ proc[p].pc = "lookup"
  /\ \E fault \in BOOLEAN :
       LET r == proc[p]
           key == QueryCacheKey(r.formQuestion, r.customerId)
           got == RedisGet(key, fault)
           seen == IF Has(key) THEN cache[key].kind ELSE "absent"
       IN IF got.threw
            THEN Set(p, [Thrown(p, "cacheGet") EXCEPT !.seen = seen, !.lookupFault = fault])
          ELSE IF got.null
            THEN Set(p, [r EXCEPT !.pc = AfterLookup(r.customerId),
                                  !.calls = Called(p, "cacheGet"), !.hit = "miss",
                                  !.seen = seen])
            ELSE Set(p, [r EXCEPT !.pc = AfterLookup(r.customerId),
                                  !.response = CacheHitResponse(got.value),
                                  !.calls = Called(p, "cacheGet"), !.hit = "hit",
                                  !.seen = seen, !.origin = written[key]])
  /\ UNCHANGED <<cache, index, blob, flags, started, written, ingests, zeroKeys, aside>>

\* Step 1: redisClient.get(cacheKey), and the return on a hit
CacheLookup(p) ==
  /\ proc[p].pc = "lookup"
  /\ \E fault \in BOOLEAN :
       LET r == proc[p]
           key == QueryCacheKey(r.formQuestion, r.customerId)
           got == RedisGet(key, fault)
           seen == IF Has(key) THEN cache[key].kind ELSE "absent"
       IN IF got.threw
            THEN Set(p, [Thrown(p, "cacheGet") EXCEPT !.seen = seen, !.lookupFault = fault])
          ELSE IF got.null
            THEN Set(p, [r EXCEPT !.pc = AfterLookup(r.customerId),
                                  !.calls = Called(p, "cacheGet"), !.hit = "miss",
                                  !.seen = seen])
            ELSE Set(p, [r EXCEPT !.pc = "done", !.response = CacheHitResponse(got.value),
                                  !.calls = Called(p, "cacheGet"), !.hit = "hit",
                                  !.seen = seen, !.origin = written[key]])
  /\ UNCHANGED <<cache, index, blob, flags, started, written, ingests, zeroKeys, aside>>

\* faulty variant: the marker is written when it is found absent, before the ingestion
MarkerCheckSetsFirst(p) ==
  /\ proc[p].pc = "marker"
  /\ \E fault \in BOOLEAN :
       LET r == proc[p]
           isIndexed == RedisExists(indexedCacheKey(r.customerId), fault)
       IN /\ Set(p, [r EXCEPT !.pc = IF isIndexed THEN "embedQuery" ELSE "ensureIndex",
                              !.forceReindex = FALSE,
                              !.calls = Called(p, "markerExists"),
                              !.markerSeen = IF Has(indexedCacheKey(r.customerId))
                                               THEN "present" ELSE "absent",
                              !.existsFault = fault])
          /\ ingests' = IF isIndexed THEN ingests ELSE Begun(p, r.customerId)
          /\ cache' = IF isIndexed THEN cache
                      ELSE RedisSet(indexedCacheKey(r.customerId), "marker", <<"indexed">>, DayTtl)
  /\ UNCHANGED <<index, blob, flags, started, written, zeroKeys, aside>>

\* Step 2: redisClient.exists(indexedCacheKey)
MarkerCheck(p) ==
  /\ proc[p].pc = "marker"
  /\ \E fault \in BOOLEAN :
       LET r == proc[p]
           isIndexed == RedisExists(indexedCacheKey(r.customerId), fault)
       IN /\ Set(p, [r EXCEPT !.pc = IF isIndexed THEN "embedQuery" ELSE "ensureIndex",
                              !.forceReindex = FALSE,
                              !.calls = Called(p, "markerExists"),
                              !.markerSeen = IF Has(indexedCacheKey(r.customerId))
                                               THEN "present" ELSE "absent",
                              !.existsFault = fault])
          /\ ingests' = IF isIndexed THEN ingests ELSE Begun(p, r.customerId)
  /\ UNCHANGED <<cache, index, blob, flags, started, written, zeroKeys, aside>>

\* ingestCustomerData: searchClient.ensureIndex()
EnsureIndex(p) ==
  /\ proc[p].pc = "ensureIndex"
  /\ \/ Set(p, [proc[p] EXCEPT !.pc = AfterEnsureIndex(proc[p].forceReindex),
                               !.calls = Called(p, "ensureIndex")])
     \/ Set(p, Thrown(p, "ensureIndex"))
  /\ UNCHANGED <<cache, index, blob, flags, started, written, ingests, zeroKeys, aside>>

\* ingestCustomerData: redisClient.get(`customer:${customerId}:data`)
DataGet(p) ==
  /\ proc[p].pc = "dataGet"
  /\ \E fault \in BOOLEAN :
       LET r == proc[p]
           got == RedisGet(dataCacheKey(r.customerId), fault)
       IN IF got.threw THEN Set(p, Thrown(p, "dataGet"))
          ELSE IF got.null
            THEN Set(p, [r EXCEPT !.pc = "blobGet", !.calls = Called(p, "dataGet"),
                                  !.dataSeen = IF Has(dataCacheKey(r.customerId))
                                                 THEN "present" ELSE "absent"])
            ELSE Set(p, [r EXCEPT !.pc = AfterData(r, got.value), !.customerData = got.value,
                                  !.calls = Called(p, "dataGet"),
                                  !.dataSeen = IF Has(dataCacheKey(r.customerId))
                                                 THEN "present" ELSE "absent"])
  /\ UNCHANGED <<cache, index, blob, flags, started, written, ingests, zeroKeys, aside>>

\* ingestCustomerData: blobClient.getCustomerData(customerId)
BlobGet(p) ==
  /\ proc[p].pc = "blobGet"
  /\ LET r == proc[p]
     IN \/ /\ r.customerId \in DOMAIN blob
           /\ Set(p, [r EXCEPT !.customerData = blob[r.customerId],
                               !.pc = IF flags.customerDataCache THEN "dataSet"
                                      ELSE AfterData(r, blob[r.customerId]),
                               !.calls = Called(p, "blobGet"),
                               !.stale = /\ Has(dataCacheKey(r.customerId))
                                         /\ cache[dataCacheKey(r.customerId)].value
                                              # blob[r.customerId]])
        \/ Set(p, Thrown(p, "blobGet"))
  /\ UNCHANGED <<cache, index, blob, flags, started, written, ingests, zeroKeys, aside>>

\* ingestCustomerData: redisClient.set(cacheKey, customerData, 86400)
DataSet(p) ==
  /\ proc[p].pc = "dataSet"
  /\ LET r == proc[p]
     IN \/ /\ cache' = RedisSet(dataCacheKey(r.customerId), "data", r.customerData, DayTtl)
           /\ Set(p, [r EXCEPT !.pc = AfterData(r, r.customerData),
                               !.calls = Called(p, "dataSet")])
        \/ /\ Set(p, Thrown(p, "dataSet"))
           /\ UNCHANGED cache
  /\ UNCHANGED <<index, blob, flags, started, written, ingests, zeroKeys, aside>>

\* deleteByCustomerId, first half: search the ids of the customer's documents
DeleteSearch(p) ==
  /\ proc[p].pc = "delSearch"
  /\ LET r == proc[p]
         filter == CustomerFilter(r.customerId)
         ids == { d.id : d \in { x \in index : FilterMatches(filter, x) } }
     IN \/ /\ FilterValid(filter)
           /\ Set(p, [r EXCEPT !.documentIds = ids,
                               !.pc = IF ids # {} THEN "delDocs"
                                      ELSE AfterDelete(r, r.customerData),
                               !.calls = Called(p, "deleteSearch")])
        \/ Set(p, Thrown(p, "deleteSearch"))
  /\ UNCHANGED <<cache, index, blob, flags, started, written, ingests, zeroKeys, aside>>

\* deleteByCustomerId, second half: deleteDocuments(documentIds)
DeleteDocs(p) ==
  /\ proc[p].pc = "delDocs"
  /\ LET r == proc[p]
     IN \/ /\ index' = DeleteDocuments(index, r.documentIds)
           /\ Set(p, [r EXCEPT !.pc = AfterDelete(r, r.customerData),
                               !.documentIds = {},
                               !.deleted = r.documentIds,
                               !.calls = Called(p, "deleteDocuments")])
        \/ /\ Set(p, Thrown(p, "deleteDocuments"))
           /\ UNCHANGED index
  /\ UNCHANGED <<cache, blob, flags, started, written, ingests, zeroKeys, aside>>

\* faulty variant: the documents of a field are upserted as soon as the
\* field is embedded
EmbedFieldUpsertsAtOnce(p) ==
  /\ proc[p].pc = "embed"
  /\ LET r == proc[p]
         fields == IndexedFields(flattenData(r.customerData, <<>>))
     IN \/ /\ Set(p, [r EXCEPT !.embedded = r.embedded + 1,
                               !.pc = IF r.embedded + 1 < NumIndexedFields(r.customerData)
                                        THEN "embed" ELSE AfterEmbed(r, r.customerData),
                               !.calls = Called(p, "embedChunks")])
           /\ index' = UploadDocuments(index,
                          DocumentsOfField(r.customerId, fields[r.embedded + 1]))
        \/ /\ Set(p, Thrown(p, "embedChunks"))
           /\ UNCHANGED index
  /\ UNCHANGED <<cache, blob, flags, started, written, ingests, zeroKeys, aside>>

\* the for loop over the flattened fields: getEmbeddings(chunks) of the next field
EmbedField(p) ==
  /\ proc[p].pc = "embed"
  /\ LET r == proc[p]
     IN \/ Set(p, [r EXCEPT !.embedded = r.embedded + 1,
                            !.pc = IF r.embedded + 1 < NumIndexedFields(r.customerData)
                                     THEN "embed" ELSE AfterEmbed(r, r.customerData),
                            !.calls = Called(p, "embedChunks")])
        \/ Set(p, Thrown(p, "embedChunks"))
  /\ UNCHANGED <<cache, index, blob, flags, started, written, ingests, zeroKeys, aside>>

\* the batch loop: searchClient.indexDocuments(batch)
UploadBatch(p) ==
  /\ proc[p].pc = "upload"
  /\ LET r == proc[p]
         docs == StagedDocuments(r.customerId, r.customerData, r.embedded)
     IN \/ /\ index' = UploadDocuments(index, Batch(docs, r.batch + 1))
           /\ Set(p, [r EXCEPT !.batch = r.batch + 1,
                               !.pc = IF r.batch + 1 < NumBatches(docs) THEN "upload"
                                      ELSE "ingestReturn",
                               !.calls = Called(p, "indexDocuments")])
        \/ /\ Set(p, Thrown(p, "indexDocuments"))
           /\ UNCHANGED index
  /\ UNCHANGED <<cache, blob, flags, started, written, ingests, zeroKeys, aside>>

\* ingestCustomerData returns {customerId, documentsProcessed, chunksCreated, success}
IngestReturn(p) ==
  /\ proc[p].pc = "ingestReturn"
  /\ Set(p, [proc[p] EXCEPT !.pc = AfterIngest(proc[p].kind)])
  /\ ingests' = [ingests EXCEPT ![proc[p].customerId].returned = @ + 1,
                                ![proc[p].customerId].forced =
                                   IF proc[p].forceReindex THEN @ + 1 ELSE @]
  /\ UNCHANGED <<cache, index, blob, flags, started, written, zeroKeys, aside>>

\* Step 2, after the ingestion: redisClient.set(indexedCacheKey, {indexed: true}, 86400)
MarkerSet(p) ==
  /\ proc[p].pc = "markerSet"
  /\ LET r == proc[p]
     IN \/ /\ cache' = RedisSet(indexedCacheKey(r.customerId), "marker", <<"indexed">>, DayTtl)
           /\ Set(p, [r EXCEPT !.pc = "embedQuery", !.calls = Called(p, "markerSet")])
        \/ /\ Set(p, Thrown(p, "markerSet"))
           /\ UNCHANGED cache
  /\ UNCHANGED <<index, blob, flags, started, written, ingests, zeroKeys, aside>>

\* retrieveDocuments: openaiClient.getEmbeddings(query)
EmbedQuery(p) ==
  /\ proc[p].pc = "embedQuery"
  /\ \/ Set(p, [proc[p] EXCEPT !.pc = "search", !.calls = Called(p, "embedQuery")])
     \/ Set(p, Thrown(p, "embedQuery"))
  /\ UNCHANGED <<cache, index, blob, flags, started, written, ingests, zeroKeys, aside>>

\* faulty variant: the zero-result response goes on to the cache store
SearchStoresZeroResult(p) ==
  /\ proc[p].pc = "search"
  /\ LET r == proc[p]
         filter == RetrievalFilter(r.customerId)
         results == hybridSearch(index, searchTopK, filter)
     IN \/ /\ filter = <<>> \/ FilterValid(filter)
           /\ Set(p, [r EXCEPT !.results = results,
                               !.pc = IF Len(results) > 0 THEN "generate"
                                      ELSE IF flags.queryCache THEN "store" ELSE "done",
                               !.response = IF Len(results) = 0 THEN NoResultsResponse
                                            ELSE NoResponse,
                               !.calls = Called(p, "search")])
           /\ zeroKeys' = IF Len(results) = 0
                            THEN zeroKeys \cup {QueryCacheKey(r.formQuestion, r.customerId)}
                            ELSE zeroKeys
        \/ /\ Set(p, Thrown(p, "search"))
           /\ UNCHANGED zeroKeys
  /\ UNCHANGED <<cache, index, blob, flags, started, written, ingests, aside>>

\* retrieveDocuments: searchClient.hybridSearch, and the return on zero results
Search(p) ==
  /\ proc[p].pc = "search"
  /\ LET r == proc[p]
         filter == RetrievalFilter(r.customerId)
         results == hybridSearch(index, searchTopK, filter)
     IN \/ /\ filter = <<>> \/ FilterValid(filter)
           /\ Set(p, [r EXCEPT !.results = results,
                               !.pc = IF Len(results) = 0 THEN "done" ELSE "generate",
                               !.response = IF Len(results) = 0 THEN NoResultsResponse
                                            ELSE NoResponse,
                               !.calls = Called(p, "search")])
           /\ zeroKeys' = IF Len(results) = 0
                            THEN zeroKeys \cup {QueryCacheKey(r.formQuestion, r.customerId)}
                            ELSE zeroKeys
        \/ /\ Set(p, Thrown(p, "search"))
           /\ UNCHANGED zeroKeys
  /\ UNCHANGED <<cache, index, blob, flags, started, written, ingests, aside>>

\* validateAnswer(result), which no caller invokes
validateAnswer(result) ==
  /\ Len(result.answer) > 0
  /\ Len(result.dataPath) > 0
  /\ Len(result.explanation) > 0
  /\ result.confidence.tag = "num"
  /\ result.confidence.milli >= 0
  /\ result.confidence.milli <= 1000

\* Steps 5 to 7: generateAnswer, calculateConfidence and the response
Generate(p) ==
  /\ proc[p].pc = "generate"
  /\ LET r == proc[p]
     IN \/ \E out \in GenOutputs :
             Set(p, [r EXCEPT !.generated = out,
                              !.response = BuildResponse(out, r.results),
                              !.pc = IF flags.queryCache THEN "store" ELSE "done",
                              !.calls = Called(p, "generate")])
        \/ Set(p, Thrown(p, "generate"))
  /\ UNCHANGED <<cache, index, blob, flags, started, written, ingests, zeroKeys, aside>>

\* Step 8: redisClient.set(cacheKey, response)
CacheStore(p) ==
  /\ proc[p].pc = "store"
  /\ LET r == proc[p]
         key == QueryCacheKey(r.formQuestion, r.customerId)
     IN \/ /\ cache' = RedisSet(key, "response", StringifyResponse(r.response), 0)
           /\ written' = Put(written, key, [customerId |-> r.customerId,
                                            response |-> r.response])
           /\ Set(p, [r EXCEPT !.pc = "done", !.calls = Called(p, "cacheSet")])
        \/ /\ Set(p, Thrown(p, "cacheSet"))
           /\ UNCHANGED <<cache, written>>
  /\ UNCHANGED <<index, blob, flags, started, ingests, zeroKeys, aside>>

\* the response (or the error) is sent and the task ends
Finish(p) ==
  /\ proc[p].pc \in {"done", "failed", "rejected"}
  /\ Set(p, IdleProc)
  /\ UNCHANGED <<cache, index, blob, flags, started, written, ingests, zeroKeys, aside>>

(***************************************************************************)
(* The environment of the cache                                            *)
(***************************************************************************)
\* a key reaches its TTL
Expire ==
  /\ \E k \in DOMAIN cache :
       /\ cache' = Drop(cache, k)
       /\ written' = IF k \in DOMAIN written THEN Drop(written, k) ELSE written
  /\ UNCHANGED <<index, blob, flags, proc, started, ingests, zeroKeys, aside>>

\* the text under a query key is damaged (a truncated or foreign write)
Corrupt ==
  /\ \E k \in DOMAIN cache :
       /\ cache[k].kind = "response"
       /\ cache' = [cache EXCEPT ![k] = GarbageText(cache[k].ttl)]
  /\ UNCHANGED <<index, blob, flags, proc, started, written, ingests, zeroKeys, aside>>

\* the steps of a request that is under way
Continue(p) ==
  \/ CacheLookup(p) \/ MarkerCheck(p)
  \/ EnsureIndex(p) \/ DataGet(p) \/ BlobGet(p) \/ DataSet(p)
  \/ DeleteSearch(p) \/ DeleteDocs(p) \/ EmbedField(p) \/ UploadBatch(p) \/ IngestReturn(p)
  \/ MarkerSet(p) \/ EmbedQuery(p) \/ Search(p) \/ Generate(p) \/ CacheStore(p)
  \/ Finish(p)

\* Requests one after the other, for every scope, with the cache's environment
Next ==
  \/ StartQuery("p1") \/ StartIngest("p1") \/ Continue("p1")
  \/ Expire \/ Corrupt

Spec == Init /\ [][Next]_vars

\* Concurrent requests of one customer
RaceStartQuery(p) == StartQueryOf(p, {<<"h", "i">>}, {CustA})

RaceStartIngest(p) == StartIngestOf(p, {CustA})

RaceNext == \E p \in Procs : RaceStartQuery(p) \/ RaceStartIngest(p) \/ Continue(p)

RaceSpec == Init /\ [][RaceNext]_vars

(***************************************************************************)
(* An edited source, a customer without a blob, requests turned away       *)
(***************************************************************************)
\* customers/a/data.json is replaced in the container
Rewrite ==
  /\ blob[CustA] # EditedData
  /\ blob' = [blob EXCEPT ![CustA] = EditedData]
  /\ UNCHANGED <<cache, index, flags, proc, started, written, ingests, zeroKeys, aside>>

\* POST /api/ingest that authenticateApiKey answers with 401, whatever the body
RejectIngest(p) ==
  /\ proc[p].kind = "idle"
  /\ started < MaxRequests
  /\ \E key \in ApiKeys, c \in IngestBodyIds, force \in BOOLEAN :
       /\ ~authenticateApiKey(key)
       /\ Set(p, [IdleProc EXCEPT !.kind = "ingest", !.customerId = c, !.apiKey = key,
                                  !.forceReindex = force, !.reply = "401",
                                  !.pc = "rejected"])
  /\ started' = started + 1
  /\ UNCHANGED <<cache, index, blob, flags, written, ingests, zeroKeys, aside>>

\* POST /api/ingest with the key and a body that validate(ingestSchema) answers with 400
InvalidIngest(p) ==
  /\ proc[p].kind = "idle"
  /\ started < MaxRequests
  /\ \E key \in ApiKeys, c \in IngestBodyIds, force \in BOOLEAN :
       /\ authenticateApiKey(key)
       /\ ~ValidIngestBody(c)
       /\ Set(p, [IdleProc EXCEPT !.kind = "ingest", !.customerId = c, !.apiKey = key,
                                  !.forceReindex = force, !.reply = "400",
                                  !.pc = "rejected"])
  /\ started' = started + 1
  /\ UNCHANGED <<cache, index, blob, flags, written, ingests, zeroKeys, aside>>

IngestInit ==
  /\ cache = <<>>
  /\ index = {}
  /\ blob = [c \in {CustA} |-> InitialBlob[c]]
  /\ flags \in [queryCache : BOOLEAN, customerDataCache : BOOLEAN]
  /\ proc = [p \in Procs |-> IdleProc]
  /\ started = 0
  /\ written = <<>>
  /\ ingests = [c \in Customers |->
                  [begun |-> 0, returned |-> 0, raced |-> FALSE, forced |-> 0]]
  /\ zeroKeys = {}
  /\ health = [h \in Procs |-> IdleHealth]
  /\ pure = NoPure
  /\ redisService = ConnectedService
  /\ server = ListeningServer

\* Requests one after the other while the source is edited
IngestNext ==
  \/ StartQueryOf("p1", {<<"h", "i">>}, IngestScopes)
  \/ StartIngestOf("p1", IngestScopes)
  \/ RejectIngest("p1") \/ InvalidIngest("p1")
  \/ Continue("p1") \/ Rewrite \/ Expire

IngestSpec == IngestInit /\ [][IngestNext]_vars

(***************************************************************************)
(* GET /health                                                             *)
(***************************************************************************)
\* testKey
HealthKey == <<"_", "_", "h", "e", "a", "l", "t", "h", "_", "c", "h", "e", "c", "k", "_", "_">>

\* the route handler, which awaits nothing: it builds the health object, starts
\* the two probes and sends the object as it is
HealthRequest(h) ==
  /\ health[h].pc = "idle"
  /\ LET obj == [IdleHealth EXCEPT !.status = "ok", !.redis = "unknown",
                                   !.search = "unknown",
                                   !.redisProbe = "connect", !.searchProbe = "ensureIndex"]
     IN health' = [health EXCEPT ![h] =
                     [obj EXCEPT !.pc = "replied",
                                 !.reply = [code |-> IF obj.status = "ok" THEN 200 ELSE 503,
                                            status |-> obj.status, redis |-> obj.redis,
                                            search |-> obj.search]]]
  /\ UNCHANGED <<cache, index, blob, flags, proc, started, written, ingests, zeroKeys, pure, redisService, server>>

\* the Redis probe: connect(), then set(testKey, {check: true}, 10), then
\* delete(testKey), then redis = 'ok'; a rejection at any of them runs the catch
RedisProbe(h) ==
  /\ health[h].redisProbe \in {"connect", "set", "delete"}
  /\ LET o == health[h]
     IN \/ /\ o.redisProbe = "connect"
           /\ health' = [health EXCEPT ![h].redisProbe = "set"]
           /\ UNCHANGED cache
        \/ /\ o.redisProbe = "set"
           /\ cache' = RedisSet(HealthKey, "health", <<>>, 10)
           /\ health' = [health EXCEPT ![h].redisProbe = "delete"]
        \/ /\ o.redisProbe = "delete"
           /\ cache' = IF Has(HealthKey) THEN Drop(cache, HealthKey) ELSE cache
           /\ health' = [health EXCEPT ![h].redisProbe = "ok", ![h].redis = "ok"]
        \/ /\ health' = [health EXCEPT ![h].redisProbe = "error", ![h].redis = "error",
                                        ![h].status = "degraded"]
           /\ UNCHANGED cache
  /\ UNCHANGED <<index, blob, flags, proc, started, written, ingests, zeroKeys, pure, redisService, server>>

\* the search probe: ensureIndex(), then search = 'ok', or the catch
SearchProbe(h) ==
  /\ health[h].searchProbe = "ensureIndex"
  /\ \/ health' = [health EXCEPT ![h].searchProbe = "ok", ![h].search = "ok"]
     \/ health' = [health EXCEPT ![h].searchProbe = "error", ![h].search = "error",
                                 ![h].status = "degraded"]
  /\ UNCHANGED <<cache, index, blob, flags, proc, started, written, ingests, zeroKeys, pure, redisService, server>>

\* Health requests of two callers and their probes
HealthNext == \E h \in Procs : HealthRequest(h) \/ RedisProbe(h) \/ SearchProbe(h)

HealthSpec == Init /\ [][HealthNext]_vars

(***************************************************************************)
(* RedisService.connect on a client that is not yet connected              *)
(***************************************************************************)
\* the operations begun, over all callers
MaxCalls == 3

\* the methods of RedisService that connect on demand, and connect itself
Operations == {"get", "set", "exists", "delete", "connect"}

\* where a caller is once its connection is there
AfterConnect(op) == IF op = "connect" THEN "returned" ELSE "command"

\* the service before the first call.  The repository holds two copies of
\* the class: one keeps the attempt in flight in connectionPromise, one does not
ConnectInit ==
  /\ cache = <<>>
  /\ index = {}
  /\ blob = InitialBlob
  /\ flags = [queryCache |-> TRUE, customerDataCache |-> TRUE]
  /\ proc = [p \in Procs |-> IdleProc]
  /\ started = 0
  /\ written = <<>>
  /\ ingests = [c \in Customers |->
                  [begun |-> 0, returned |-> 0, raced |-> FALSE, forced |-> 0]]
  /\ zeroKeys = {}
  /\ health = [h \in Procs |-> IdleHealth]
  /\ pure = NoPure
  /\ server = ListeningServer
  /\ redisService \in
       { [ConnectedService EXCEPT !.copy = b, !.isConnected = FALSE, !.attempts = <<>>] :
           b \in {"guarded", "unguarded"} }

\* connect() as far as it runs before its first await, called by c for op:
\* it returns at once when connected, joins the attempt in flight when
\* connectionPromise holds one, and else creates a client and starts an attempt
connect(s, c, op) ==
  IF s.isConnected
    THEN [s EXCEPT !.callers[c] = [pc |-> AfterConnect(op), op |-> op, promise |-> 0]]
  ELSE IF s.copy = "guarded" /\ s.connectionPromise # 0
    THEN [s EXCEPT !.callers[c] = [pc |-> "waiting", op |-> op,
                                   promise |-> s.connectionPromise]]
  ELSE [s EXCEPT !.attempts = Append(@, "pending"),
                 !.connectionPromise = IF s.copy = "guarded" THEN Len(s.attempts) + 1 ELSE 0,
                 !.callers[c] = [pc |-> "awaiting", op |-> op,
                                 promise |-> Len(s.attempts) + 1]]

\* a caller begins get, set, exists, delete or connect: `if (!this.client ||
\* !this.isConnected) await this.connect()`
CallOperation(c) ==
  /\ redisService.callers[c].pc = "idle"
  /\ redisService.calls < MaxCalls
  /\ \E op \in Operations :
       redisService' = [connect(redisService, c, op) EXCEPT !.calls = @ + 1]
  /\ UNCHANGED <<pipeline, health, pure, server>>

\* _connect: `await this.client.connect()` resolves, and isConnected is set,
\* or rejects
SettleConnect ==
  /\ \E a \in 1..Len(redisService.attempts) :
       /\ redisService.attempts[a] = "pending"
       /\ \/ redisService' = [redisService EXCEPT !.attempts[a] = "resolved",
                                                  !.isConnected = TRUE]
          \/ redisService' = [redisService EXCEPT !.attempts[a] = "rejected"]
  /\ UNCHANGED <<pipeline, health, pure, server>>

\* a caller goes on after the attempt it awaits is settled; the caller that
\* started it runs `finally { this.connectionPromise = null }`
ResumeConnect(c) ==
  /\ LET s == redisService
         r == s.callers[c]
     IN /\ r.pc \in {"awaiting", "waiting"}
        /\ s.attempts[r.promise] # "pending"
        /\ redisService' =
             [s EXCEPT !.connectionPromise =
                          IF r.pc = "awaiting" /\ s.copy = "guarded" THEN 0 ELSE @,
                       !.callers[c].pc =
                          IF s.attempts[r.promise] = "resolved" THEN AfterConnect(r.op)
                          ELSE "failed"]
  /\ UNCHANGED <<pipeline, health, pure, server>>

\* the Redis command of the operation is issued and the operation ends, or
\* the operation ends with 'Failed to connect to Redis'
CompleteOperation(c) ==
  /\ redisService.callers[c].pc \in {"command", "returned", "failed"}
  /\ redisService' = [redisService EXCEPT !.callers[c] =
                                             [pc |-> "idle", op |-> "none", promise |-> 0]]
  /\ UNCHANGED <<pipeline, health, pure, server>>

ConnectNext ==
  \/ \E c \in Procs : CallOperation(c) \/ ResumeConnect(c) \/ CompleteOperation(c)
  \/ SettleConnect

ConnectSpec == ConnectInit /\ [][ConnectNext]_vars

(***************************************************************************)
(* The process: start() and shutdown(signal)                               *)
(***************************************************************************)
\* the signals delivered to the process
MaxSignals == 3

\* the module is loaded: the handlers are registered, start() awaits
\* redisClient.connect(), `server` is null
ShutdownInit ==
  /\ cache = <<>>
  /\ index = {}
  /\ blob = InitialBlob
  /\ flags = [queryCache |-> TRUE, customerDataCache |-> TRUE]
  /\ proc = [p \in Procs |-> IdleProc]
  /\ started = 0
  /\ written = <<>>
  /\ ingests = [c \in Customers |->
                  [begun |-> 0, returned |-> 0, raced |-> FALSE, forced |-> 0]]
  /\ zeroKeys = {}
  /\ health = [h \in Procs |-> IdleHealth]
  /\ pure = NoPure
  /\ redisService = ConnectedService
  /\ server = [ListeningServer EXCEPT !.pc = "starting", !.server = "null",
                                      !.redis = "connecting"]

\* process.exit(code)
Exit(sv, code, by) == [sv EXCEPT !.pc = "exited", !.exitCode = code, !.exitBy = by]

\* start(): the connection is there and app.listen is called, or it failed
\* and the catch block exits with code 1
Start ==
  /\ server.pc = "starting"
  /\ \/ server' = [server EXCEPT !.pc = "listening", !.server = "open",
                                  !.redis = "connected"]
     \/ server' = Exit([server EXCEPT !.log = @ \cup {"Failed to start server"}], 1, "start")
  /\ UNCHANGED <<pipeline, health, pure, redisService>>

\* faulty variant: shutdown sets no timer
ShutdownWithoutTimer ==
  /\ server.pc # "exited"
  /\ server.signals < MaxSignals
  /\ \E signal \in {"SIGTERM", "SIGINT"} :
       server' =
         IF server.server # "null"
           THEN [server EXCEPT !.signals = @ + 1,
                               !.server = IF @ = "open" THEN "closing" ELSE @,
                               !.callbacks = Append(@, "registered")]
           ELSE Exit([server EXCEPT !.signals = @ + 1,
                                    !.log = @ \cup {"No server to close, exiting"}],
                     0, "shutdown")
  /\ UNCHANGED <<pipeline, health, pure, redisService>>

\* shutdown(signal): with a server, server.close(callback) and the timer of
\* 10 seconds; without, process.exit(0)
Shutdown ==
  /\ server.pc # "exited"
  /\ server.signals < MaxSignals
  /\ \E signal \in {"SIGTERM", "SIGINT"} :
       server' =
         IF server.server # "null"
           THEN [server EXCEPT !.signals = @ + 1,
                               !.server = IF @ = "open" THEN "closing" ELSE @,
                               !.callbacks = Append(@, "registered"),
                               !.timer = TRUE]
           ELSE Exit([server EXCEPT !.signals = @ + 1,
                                    !.log = @ \cup {"No server to close, exiting"}],
                     0, "shutdown")
  /\ UNCHANGED <<pipeline, health, pure, redisService>>

\* the last connection has ended: the HTTP server emits 'close'
HttpClose ==
  /\ server.pc # "exited"
  /\ server.server = "closing"
  /\ server' = [server EXCEPT !.server = "closed"]
  /\ UNCHANGED <<pipeline, health, pure, redisService>>

\* the close callback, first try block: redisClient.disconnect() returns, or
\* throws and the error is logged
Disconnect(i) ==
  /\ server.pc # "exited"
  /\ server.server = "closed"
  /\ server.callbacks[i] = "registered"
  /\ \/ server' = [server EXCEPT !.callbacks[i] = "tokenizer", !.redis = "closed"]
     \/ server' = [server EXCEPT !.callbacks[i] = "tokenizer",
                                  !.log = @ \cup {"Error disconnecting Redis"}]
  /\ UNCHANGED <<pipeline, health, pure, redisService>>

\* the close callback, second try block and the end: the tokenizer module is
\* imported and cleanup() runs, or the error is logged; then process.exit(0)
Cleanup(i) ==
  /\ server.pc # "exited"
  /\ server.callbacks[i] = "tokenizer"
  /\ \/ server' = Exit([server EXCEPT !.callbacks[i] = "done", !.tokenizer = "released"],
                        0, "callback")
     \/ server' = Exit([server EXCEPT !.callbacks[i] = "done",
                                      !.log = @ \cup {"Error cleaning up tokenizer"}],
                        0, "callback")
  /\ UNCHANGED <<pipeline, health, pure, redisService>>

\* the timer set by shutdown fires: process.exit(1)
ForceTimer ==
  /\ server.pc # "exited"
  /\ server.timer
  /\ server' = Exit([server EXCEPT !.log = @ \cup {"Forced shutdown after timeout"}],
                    1, "timer")
  /\ UNCHANGED <<pipeline, health, pure, redisService>>

ShutdownNext ==
  \/ Start \/ Shutdown \/ HttpClose \/ ForceTimer
  \/ \E i \in 1..MaxSignals :
       i <= Len(server.callbacks) /\ (Disconnect(i) \/ Cleanup(i))

\* the runtime fires a timer that is set; nothing obliges the connections of
\* the HTTP server to end or the Redis client to answer
ShutdownSpec == ShutdownInit /\ [][ShutdownNext]_vars /\ WF_vars(ForceTimer)

(***************************************************************************)
(* The helpers applied on their own                                        *)
(***************************************************************************)
\* the longest text
MaxLen == 3

\* every text of at most MaxLen characters: a letter in both cases, a space,
\* punctuation
Texts == UNION { [1..n -> {"a", "A", " ", ",", ":"}] : n \in 0..MaxLen }

\* a property that the parsed completion does not have
Undefined == [t |-> "undefined"]

\* generateAnswer over the content of the completion: JSON.parse rejects a
\* text that is not JSON, the log line reads response.dataPath.length, and
\* the four properties are returned as they are
generateAnswer(content) ==
  IF content.kind = "text" \/ content.dataPath.t = "undefined"
    THEN [threw |-> TRUE, result |-> NoGeneration]
    ELSE [threw |-> FALSE,
          result |-> [answer |-> content.answer, dataPath |-> content.dataPath,
                      explanation |-> content.explanation,
                      llmConfidence |-> content.confidence]]

\* the longest token stream and the largest chunk size of the chunking runs
MaxTokens == 6
\* the hits of a result set
MaxResults == 2
\* the largest maxRetries
MaxRetries == 3
MaxSize == 3

\* faulty variant: the loop goes on after the window that reaches the end
chunkIterationNoBreak(l) ==
  IF ~(l.start < Len(l.tokens)) THEN [l EXCEPT !.done = TRUE]
  ELSE LET end == Min(l.start + l.size, Len(l.tokens))
           from == IF l.start < 0 THEN Max(Len(l.tokens) + l.start, 0) ELSE l.start
           to == IF end < 0 THEN Max(Len(l.tokens) + end, 0) ELSE end
       IN [l EXCEPT !.chunks = Append(@, SubSeq(l.tokens, from + 1, to)),
                    !.starts = Append(@, l.start),
                    !.start = l.start + l.size - l.overlap]

\* faulty variant: the next window starts where the last one ended
chunkIterationNoOverlap(l) ==
  IF ~(l.start < Len(l.tokens)) THEN [l EXCEPT !.done = TRUE]
  ELSE LET end == Min(l.start + l.size, Len(l.tokens))
           pushed == [l EXCEPT !.chunks = Append(@, SubSeq(l.tokens, l.start + 1, end)),
                               !.starts = Append(@, l.start)]
       IN IF end = Len(l.tokens) THEN [pushed EXCEPT !.done = TRUE]
          ELSE [pushed EXCEPT !.start = l.start + l.size]

\* chunkText, one pass of its while loop: the test of the condition and, when
\* it holds, the body; tokens.slice(start, end) counts a negative start or
\* end from the end of the array
chunkIteration(l) ==
  IF ~(l.start < Len(l.tokens)) THEN [l EXCEPT !.done = TRUE]
  ELSE LET end == Min(l.start + l.size, Len(l.tokens))
           from == IF l.start < 0 THEN Max(Len(l.tokens) + l.start, 0) ELSE l.start
           to == IF end < 0 THEN Max(Len(l.tokens) + end, 0) ELSE end
           pushed == [l EXCEPT !.chunks = Append(@, SubSeq(l.tokens, from + 1, to)),
                               !.starts = Append(@, l.start)]
       IN IF end = Len(l.tokens) THEN [pushed EXCEPT !.done = TRUE]
          ELSE [pushed EXCEPT !.start = l.start + l.size - l.overlap]

\* the arguments: one text; two questions (the second among four) each with
\* a customerId, which is absent or an id that may hold a colon; the content
\* of a completion, a text that is not JSON or an object with or without each
\* of the four properties; a token stream with a chunk size and an overlap,
\* among them 250 tokens with size 100 and overlap 20; three scores in
\* thousandths, inside and outside their nominal ranges
\* retryWithBackoff(fn, maxRetries, baseDelay) has been called; the value of
\* the k-th call of fn is k, its error is the error of attempt k
RetryCalled(maxRetries, baseDelay) ==
  [op |-> "retry", maxRetries |-> maxRetries, baseDelay |-> baseDelay,
   pc |-> "test", attempt |-> 0, calls |-> 0, outcomes |-> <<>>, waits |-> <<>>,
   result |-> -1, error |-> [message |-> "none", attempt |-> -1]]

PureInit ==
  LET KeyTexts == { <<>>, <<"a">>, <<"a", "a">>, <<"A", ":", "a">> }
      KeyScopes == { NoScope, <<"a">>, <<"a", "a">>, <<"a", ":">> }
      Contents ==
        { [kind |-> "text", answer |-> Undefined, dataPath |-> Undefined,
           explanation |-> Undefined, confidence |-> Undefined] }
        \cup [kind : {"object"},
              answer : {Undefined, JString(<<"o", "k">>)},
              dataPath : {Undefined, JArray(<<>>), JArray(<<JString(PathBio)>>)},
              explanation : {Undefined, JString(<<"x">>)},
              confidence : {Undefined, JNumber(<<"0", ".", "9">>)}]
      \* result sets of the search: similarity scores in thousandths, the
      \* lexical score left out, 0, or on the scale to 100
      Hits == [score : {Num(0), Num(500), Num(900)},
               rerankerScore : {NoScore, Num(0), Num(45200)}]
      ResultSets == UNION { [1..n -> Hits] : n \in 0..MaxResults }
      \* customer data: leaves of every kind, a value of 11 characters among
      \* them, under keys that hold a dot or nothing, nested up to 3 deep
      Leaves == { JString(<<"x">>), JString(PathBio \o <<" ">> \o PathNote \o PathBio),
                  JNumber(<<"1">>), JBool(TRUE), JNull }
      Keys == { <<"a">>, <<"b">>, <<"a", ".", "b">>, <<>> }
      Inner == Leaves \cup { JArray(<<>>), JObject(<<>>) }
                 \cup { JArray(<<v>>) : v \in Leaves }
                 \cup { JArray(<<v, w>>) : v \in Leaves, w \in Leaves }
                 \cup { JObject(<<Entry(k, v)>>) : k \in Keys, v \in Leaves }
      Data == Inner
                \cup { JArray(<<v>>) : v \in Inner }
                \cup { JObject(<<Entry(k, v)>>) : k \in Keys, v \in Inner }
                \cup { JObject(<<Entry(kl[1], v), Entry(kl[2], w)>>) :
                         kl \in { x \in Keys \X Keys : x[1] # x[2] }, v \in Leaves,
                         w \in Leaves \cup { JObject(<<Entry(<<"b">>, x)>>) : x \in Leaves } }
      Loop(n, size, overlap) ==
        [op |-> "chunk", tokens |-> [i \in 1..n |-> i], size |-> size, overlap |-> overlap,
         start |-> 0, chunks |-> <<>>, starts |-> <<>>, done |-> FALSE]
  IN
  /\ cache = <<>>
  /\ index = {}
  /\ blob = InitialBlob
  /\ flags = [queryCache |-> TRUE, customerDataCache |-> TRUE]
  /\ proc = [p \in Procs |-> IdleProc]
  /\ started = 0
  /\ written = <<>>
  /\ ingests = [c \in Customers |->
                  [begun |-> 0, returned |-> 0, raced |-> FALSE, forced |-> 0]]
  /\ zeroKeys = {}
  /\ health = [h \in Procs |-> IdleHealth]
  /\ redisService = ConnectedService
  /\ server = ListeningServer
  /\ pure \in { [op |-> "text", text |-> x] : x \in Texts }
              \cup { [op |-> "completion", content |-> c] : c \in Contents }
              \cup { Loop(n, size, overlap) :
                       n \in 0..MaxTokens, size \in 1..MaxSize, overlap \in 0..MaxSize }
              \cup { Loop(250, 100, 20) }
              \cup [op : {"scores"},
                    similarity : {-500, 0, 100, 500, 890, 1000, 1500},
                    lexical : {-1000, 0, 10000, 38500, 50000, 100000, 150000},
                    llm : {-200, 0, 100, 500, 920, 1000, 2000}]
              \cup { [op |-> "data", data |-> d] : d \in Data }
              \cup { [op |-> "results", results |-> rs] : rs \in ResultSets }
              \cup { RetryCalled(m, d) : m \in -1..MaxRetries, d \in {100, 1000} }
              \cup { [op |-> "pairs", text1 |-> x, scope1 |-> c, text2 |-> y, scope2 |-> d] :
                       x \in Texts, c \in KeyScopes, y \in KeyTexts, d \in KeyScopes }

\* normalizeQuery(text), and normalizeQuery of the result
Normalize ==
  /\ pure.op = "text"
  /\ pure' = [op |-> "normalized", text |-> pure.text,
              once |-> normalizeQuery(pure.text),
              twice |-> normalizeQuery(normalizeQuery(pure.text))]
  /\ UNCHANGED <<cache, index, blob, flags, proc, started, written, ingests, zeroKeys, health, redisService, server>>

\* processFormQuery, step 1, for two requests: the normalized queries and their keys
CreateKeys ==
  /\ pure.op = "pairs"
  /\ pure' = [op |-> "keys",
              query1 |-> normalizeQuery(pure.text1), scope1 |-> pure.scope1,
              query2 |-> normalizeQuery(pure.text2), scope2 |-> pure.scope2,
              key1 |-> createCacheKey(normalizeQuery(pure.text1), pure.scope1),
              key2 |-> createCacheKey(normalizeQuery(pure.text2), pure.scope2)]
  /\ UNCHANGED <<cache, index, blob, flags, proc, started, written, ingests, zeroKeys, health, redisService, server>>

\* generateAnswer(options) once the provider has answered with a content
GenerateAnswer ==
  /\ pure.op = "completion"
  /\ pure' = [op |-> "generated", content |-> pure.content,
              threw |-> generateAnswer(pure.content).threw,
              result |-> generateAnswer(pure.content).result]
  /\ UNCHANGED <<cache, index, blob, flags, proc, started, written, ingests, zeroKeys, health, redisService, server>>

\* chunkText, pass by pass; a run that does not end is followed for
\* MaxTokens + 2 chunks
ChunkStep ==
  /\ pure.op = "chunk"
  /\ ~pure.done
  /\ Len(pure.chunks) < MaxTokens + 2
  /\ pure' = chunkIteration(pure)
  /\ UNCHANGED <<cache, index, blob, flags, proc, started, written, ingests, zeroKeys, health, redisService, server>>

\* calculateConfidence({avgSimilarityScore, avgLexicalScore, llmScore})
CalculateConfidence ==
  /\ pure.op = "scores"
  /\ pure' = [op |-> "confidence", inputs |-> pure,
              result |-> confidenceResult(Num(pure.similarity), Num(pure.lexical),
                                          Num(pure.llm))]
  /\ UNCHANGED <<cache, index, blob, flags, proc, started, written, ingests, zeroKeys, health, redisService, server>>

\* ingestCustomerData from the flattening on, for customer "a" and an empty
\* index, with every provider call succeeding
FlattenAndStage ==
  /\ pure.op = "data"
  /\ LET flattenedData == flattenData(pure.data, <<>>)
         documents == StagedDocuments(CustA, pure.data, NumIndexedFields(pure.data))
     IN pure' = [op |-> "ingested", data |-> pure.data,
                 flattenedData |-> flattenedData, documents |-> documents,
                 indexed |-> UploadDocuments({}, documents),
                 documentsProcessed |-> Len(flattenedData),
                 chunksCreated |-> Len(documents)]
  /\ UNCHANGED <<cache, index, blob, flags, proc, started, written, ingests, zeroKeys, health, redisService, server>>

\* retrieveDocuments after hybridSearch has returned: the two averages
RetrieveDocuments ==
  /\ pure.op = "results"
  /\ pure' = [op |-> "retrieved", results |-> pure.results,
              avgSimilarityScore |-> avgSimilarityScore(pure.results),
              avgLexicalScore |-> avgLexicalScore(pure.results),
              thrown |-> FALSE]
  /\ UNCHANGED <<cache, index, blob, flags, proc, started, written, ingests, zeroKeys, health, redisService, server>>

\* faulty variant: the last failed attempt is followed by a wait as well
RetrySettleAlwaysWaits ==
  /\ pure.op = "retry" /\ pure.pc = "calling"
  /\ \E ok \in BOOLEAN :
       pure' =
         IF ok
           THEN [pure EXCEPT !.pc = "returned", !.outcomes = Append(@, "ok"),
                             !.result = pure.attempt]
           ELSE [pure EXCEPT !.pc = "sleeping", !.outcomes = Append(@, "error"),
                             !.waits = Append(@, pure.baseDelay * 2 ^ pure.attempt)]
  /\ UNCHANGED <<cache, index, blob, flags, proc, started, written, ingests, zeroKeys, health, redisService, server>>

\* the head of the for loop: fn is called while attempt < maxRetries, and
\* after the loop 'Max retries exceeded' is thrown
RetryCall ==
  /\ pure.op = "retry" /\ pure.pc = "test"
  /\ pure' =
       IF pure.attempt < pure.maxRetries
         THEN [pure EXCEPT !.pc = "calling", !.calls = @ + 1]
         ELSE [pure EXCEPT !.pc = "thrown",
                           !.error = [message |-> "Max retries exceeded", attempt |-> -1]]
  /\ UNCHANGED <<cache, index, blob, flags, proc, started, written, ingests, zeroKeys, health, redisService, server>>

\* await fn() settles: its value is returned, or its error is rethrown on
\* the last attempt and followed by the wait of baseDelay * 2^attempt on the
\* others
RetrySettle ==
  /\ pure.op = "retry" /\ pure.pc = "calling"
  /\ \E ok \in BOOLEAN :
       pure' =
         IF ok
           THEN [pure EXCEPT !.pc = "returned", !.outcomes = Append(@, "ok"),
                             !.result = pure.attempt]
           ELSE IF pure.attempt = pure.maxRetries - 1
             THEN [pure EXCEPT !.pc = "thrown", !.outcomes = Append(@, "error"),
                               !.error = [message |-> "fn", attempt |-> pure.attempt]]
             ELSE [pure EXCEPT !.pc = "sleeping", !.outcomes = Append(@, "error"),
                               !.waits = Append(@, pure.baseDelay * 2 ^ pure.attempt)]
  /\ UNCHANGED <<cache, index, blob, flags, proc, started, written, ingests, zeroKeys, health, redisService, server>>

\* the timer of the wait fires: attempt++
RetryWake ==
  /\ pure.op = "retry" /\ pure.pc = "sleeping"
  /\ pure' = [pure EXCEPT !.pc = "test", !.attempt = @ + 1]
  /\ UNCHANGED <<cache, index, blob, flags, proc, started, written, ingests, zeroKeys, health, redisService, server>>

PureNext ==
  \/ RetryCall \/ RetrySettle \/ RetryWake
  \/ Normalize \/ CreateKeys \/ GenerateAnswer \/ ChunkStep \/ CalculateConfidence
  \/ FlattenAndStage \/ RetrieveDocuments

PureSpec == PureInit /\ [][PureNext]_vars

\* chunkText runs on once it is called
PureFairSpec == PureSpec /\ WF_vars(ChunkStep)

(***************************************************************************)
(* Properties                                                              *)
(***************************************************************************)
\* C1: with the query cache enabled, a request that finds under its key the
\* response stored by an earlier request of the same question and scope (not
\* expired, not damaged) computes nothing anew: the cache read is its only
\* call, and once the read has returned the request has ended with
\* cached=true and the answer, dataPath, confidence and sources that the
\* first caller received with cached=false
C1_RepeatIsServedFromCache ==
  \A p \in Procs :
    (flags.queryCache /\ proc[p].seen = "response") =>
      /\ proc[p].calls = <<"cacheGet">>
      /\ ~proc[p].lookupFault =>
           /\ proc[p].pc = "done"
           /\ proc[p].hit = "hit"
           /\ proc[p].response.cached
           /\ proc[p].origin.customerId = proc[p].customerId
           /\ ~proc[p].origin.response.cached
           /\ Len(proc[p].origin.response.sources) > 0
           /\ WireResponse(proc[p].response) =
                [WireResponse(proc[p].origin.response) EXCEPT !.cached = TRUE]

C1_Witness ==
  \E p \in Procs :
    /\ proc[p].pc = "done" /\ proc[p].hit = "hit"
    /\ proc[p].response.cached
    /\ Len(proc[p].response.sources) > 0

\* C2: every response stored under a query cache key has cached=false, and
\* a request holds a response with cached=true only if it was served by the
\* cache lookup, as its only call
C2_StoredCopyIsFresh ==
  /\ \A k \in DOMAIN cache : cache[k].kind = "response" => ~cache[k].value.cached
  /\ \A p \in Procs :
       proc[p].response.cached =>
         proc[p].hit = "hit" /\ proc[p].calls = <<"cacheGet">> /\ proc[p].pc = "done"

C2_Witness ==
  /\ \E k \in DOMAIN cache : cache[k].kind = "response" /\ Len(cache[k].value.sources) > 0
  /\ \E p \in Procs : proc[p].response.cached

\* C3: a request that is served from the cache is served an entry that was
\* computed for its own scope: never one of another customer, never one of
\* a request without scope, and a request without scope never one of a customer
C3_CacheIsScoped ==
  \A p \in Procs : proc[p].hit = "hit" => proc[p].origin.customerId = proc[p].customerId

\* a request has missed the cache while the same question is cached for another scope
C3_Witness ==
  \E p \in Procs, k \in DOMAIN written :
    /\ proc[p].hit = "miss" /\ proc[p].seen = "absent"
    /\ Has(k) /\ cache[k].kind = "response"
    /\ written[k].customerId # proc[p].customerId
    /\ k = QueryCacheKey(proc[p].formQuestion, written[k].customerId)

\* C4: every search result of a request with a scope, and so every source of
\* its response, belongs to that scope
C4_ResultsBelongToScope ==
  \A p \in Procs :
    (proc[p].customerId # NoScope /\ ValidCustomerId(proc[p].customerId)) =>
      \A i \in 1..Len(proc[p].results) :
        proc[p].results[i].customerId = proc[p].customerId

\* the rank of a provider call in the pipeline
StageOf(call) ==
  CASE call = "cacheGet" -> 1
    [] call = "markerExists" -> 2
    [] call \in {"ensureIndex", "dataGet", "blobGet", "dataSet", "deleteSearch",
                 "deleteDocuments", "embedChunks", "indexDocuments"} -> 3
    [] call = "markerSet" -> 4
    [] call = "embedQuery" -> 5
    [] call = "search" -> 6
    [] call = "generate" -> 7
    [] OTHER -> 8

\* C5: a request in which a call has thrown has ended in an error: the call
\* that threw is the last one it issued, no call of a later stage was made,
\* the query cache was not written and there is no response
C5_FailureAborts ==
  \A p \in Procs :
    proc[p].failedAt # "none" =>
      /\ proc[p].pc = "failed"
      /\ proc[p].calls # <<>>
      /\ proc[p].calls[Len(proc[p].calls)] = proc[p].failedAt
      /\ \A i \in 1..Len(proc[p].calls) :
           /\ StageOf(proc[p].calls[i]) <= StageOf(proc[p].failedAt)
           /\ (i < Len(proc[p].calls) => proc[p].calls[i] # "cacheSet")
      /\ proc[p].response = NoResponse

C5_Witness ==
  \E p \in Procs :
    /\ proc[p].kind = "query" /\ proc[p].failedAt = "generate"
    /\ proc[p].calls[Len(proc[p].calls) - 1] = "search"

\* C6: a request whose final cache write fails still ends with its freshly
\* computed response
C6_StoreFailureIsNotFatal ==
  \A p \in Procs :
    proc[p].failedAt = "cacheSet" =>
      proc[p].pc = "done" /\ ~proc[p].response.cached /\ proc[p].response # NoResponse

\* C7: a request whose query cache entry is damaged, or whose read command
\* fails, goes on as on a miss: it does not fail at the cache read
C7_ReadFailureIsMiss ==
  \A p \in Procs : ~(proc[p].pc = "failed" /\ proc[p].failedAt = "cacheGet")

\* C8: a query request is inside the on-demand ingestion only with a scope,
\* after a cache miss (or with the query cache off) and with
\* forceReindex=false; it writes the marker only after that ingestion has
\* returned; and a marker that is present is the marker of a customer whose
\* ingestion has returned successfully
C8_MarkerFollowsIngestion ==
  /\ \A c \in CustomerIds : Has(indexedCacheKey(c)) => c \in Ingested
  /\ \A p \in Procs :
       (proc[p].kind = "query" /\ (proc[p].pc \in IngestPcs \/ proc[p].pc = "markerSet")) =>
         /\ proc[p].customerId # NoScope
         /\ ~proc[p].forceReindex
         /\ proc[p].hit = IF flags.queryCache THEN "miss" ELSE "none"
         /\ proc[p].pc = "markerSet" => proc[p].customerId \in Ingested

C8_Witness ==
  /\ Has(indexedCacheKey(CustA))
  /\ \E d \in index : d.customerId = CustA

\* C9: a query request that finds the marker of its scope present starts no ingestion
C9_MarkerGatesIngestion ==
  \A p \in Procs :
    (proc[p].kind = "query" /\ proc[p].markerSeen = "present") =>
      /\ proc[p].pc \notin IngestPcs /\ proc[p].pc # "markerSet"
      /\ \A i \in 1..Len(proc[p].calls) : StageOf(proc[p].calls[i]) # 3

\* the documents one ingestion of c stages
DocumentsOf(c) == SeqRange(StagedDocuments(c, blob[c], NumIndexedFields(blob[c])))

\* C10: once every ingestion of a customer that was begun has returned, the
\* index holds for that customer exactly the documents one ingestion stages,
\* each identifier once
C10_RacingIngestionsConverge ==
  \A c \in CustomerIds :
    (ingests[c].begun > 0 /\ ingests[c].begun = ingests[c].returned) =>
      /\ { d \in index : d.customerId = c } = DocumentsOf(c)
      /\ \A d, e \in index : d.id = e.id => d = e

\* two ingestions of one customer have overlapped, one of them forced, and both have returned
C10_Witness ==
  /\ ingests[CustA].raced
  /\ ingests[CustA].begun >= 2 /\ ingests[CustA].begun = ingests[CustA].returned
  /\ \E p \in Procs : proc[p].forceReindex /\ "deleteDocuments" \in SeqRange(proc[p].calls)
  /\ DocumentsOf(CustA) # {}

\* what the index holds for a customer
IndexedOf(c) == { d \in index : d.customerId = c }

\* C11: when an ingestion with forceReindex=true has returned, the index
\* holds for its scope one document per chunk of the source, under the
\* identifiers customerId-hash(path)-i, whether it was the first forced run
\* or a repetition over the same source; every identifier in the index is
\* made of the scope, the path and a chunk index of its document
C11_ForcedReingestionIsIdempotent ==
  /\ \A p \in Procs :
       (proc[p].kind = "ingest" /\ proc[p].forceReindex /\ proc[p].pc = "done") =>
         LET c == proc[p].customerId
             staged == StagedDocuments(c, blob[c], NumIndexedFields(blob[c]))
         IN /\ { d.id : d \in IndexedOf(c) } = { staged[i].id : i \in 1..Len(staged) }
            /\ Cardinality(IndexedOf(c)) = Len(staged)
  /\ \A d \in index :
       /\ d.chunkId = d.id
       /\ \E i \in 0..Cardinality(index) : d.id = ChunkIdOf(d.customerId, d.dataPath, i)

\* the second forced ingestion of one customer has returned
C11_Witness ==
  /\ ingests[CustA].forced = 2
  /\ \E p \in Procs : proc[p].kind = "ingest" /\ proc[p].forceReindex /\ proc[p].pc = "done"
                       /\ proc[p].customerId = CustA
                       /\ "deleteDocuments" \in SeqRange(proc[p].calls)
  /\ IndexedOf(CustA) # {}

\* C12: an ingestion with forceReindex=true has the index empty of its
\* scope's documents from its delete until its first upsert, and when it has
\* returned the scope's documents are exactly those staged from the customer
\* data it fetched: nothing of an earlier content of the source is left
C12_ForcedIngestReplacesScope ==
  \A p \in Procs :
    LET r == proc[p]
        staged == StagedDocuments(r.customerId, r.customerData,
                                  NumIndexedFields(r.customerData))
    IN (r.kind = "ingest" /\ r.forceReindex /\ r.reply = "none") =>
         /\ (r.pc \in {"embed", "upload", "ingestReturn", "done"}) =>
              "deleteSearch" \in SeqRange(r.calls)
         /\ (r.pc \in {"embed", "upload"} /\ r.batch = 0) => IndexedOf(r.customerId) = {}
         /\ (r.pc = "done") => IndexedOf(r.customerId) = SeqRange(staged)

\* a forced ingestion of the edited source has returned after it deleted the
\* documents of the earlier content
C12_Witness ==
  \E p \in Procs :
    /\ proc[p].kind = "ingest" /\ proc[p].forceReindex /\ proc[p].pc = "done"
    /\ proc[p].customerData = EditedData
    /\ proc[p].deleted # {}
    /\ \E d \in IndexedOf(CustA) : d.dataPath = PathNote

\* C13: an ingestion that failed in an embedding call or an index call has
\* returned nothing and has left nothing partial: the index holds none or all
\* of the documents staged for it, and the documents it deleted, if any, have
\* all been replaced
C13_IngestionIsNeverPartial ==
  \A p \in Procs :
    LET r == proc[p]
        staged == SeqRange(StagedDocuments(r.customerId, r.customerData,
                                           NumIndexedFields(r.customerData)))
    IN (r.pc = "failed" /\ r.failedAt \in {"embedChunks", "indexDocuments"}) =>
         /\ r.response = NoResponse
         /\ r.deleted # {} => staged \subseteq index
         /\ staged \cap index # {} => staged \subseteq index

\* C14: a query for a customer that has nothing indexed and no blob, all
\* providers answering, ends as a success with the fixed no-information
\* response (confidence 0, no sources, no dataPath, cached=false), without
\* generation
C14_ScopeWithoutDataIsNormalSuccess ==
  \A p \in Procs :
    LET r == proc[p]
    IN (/\ r.kind = "query" /\ r.customerId # NoScope
        /\ r.customerId \notin DOMAIN blob
        /\ IndexedOf(r.customerId) = {}
        /\ r.pc \in {"done", "failed"}
        /\ r.failedAt \in {"none", "blobGet"}) =>
         /\ r.pc = "done"
         /\ r.response = NoResultsResponse
         /\ "generate" \notin SeqRange(r.calls)

\* C15: the response of a request that found no search result is not
\* written to the query cache: such a request ends without generation and
\* without a cache write and no response is stored under its key; no stored
\* response and no cache hit is a zero-result response; and a request whose
\* key has had a zero-result response before, when it is not served a
\* response stored since, searches again and answers cached=false
C15_ZeroResultIsNotCached ==
  /\ \A p \in Procs :
       LET r == proc[p]
           key == QueryCacheKey(r.formQuestion, r.customerId)
       IN /\ (r.kind = "query" /\ r.pc = "done" /\ r.response = NoResultsResponse) =>
               /\ "search" \in SeqRange(r.calls)
               /\ "generate" \notin SeqRange(r.calls)
               /\ "cacheSet" \notin SeqRange(r.calls)
               /\ ~(Has(key) /\ cache[key].kind = "response")
          /\ (r.hit = "hit") => Len(r.response.sources) > 0
          /\ (r.kind = "query" /\ r.pc = "done" /\ key \in zeroKeys /\ r.hit # "hit") =>
               "search" \in SeqRange(r.calls) /\ ~r.response.cached
  /\ \A k \in DOMAIN cache :
       cache[k].kind = "response" => Len(cache[k].value.sources) > 0

\* with the query cache enabled, a request has missed the cache under a key
\* that had a zero-result response before, and is at its search
C15_Witness ==
  \E p \in Procs :
    /\ flags.queryCache
    /\ QueryCacheKey(proc[p].formQuestion, proc[p].customerId) \in zeroKeys
    /\ proc[p].kind = "query" /\ proc[p].pc = "search"
    /\ proc[p].hit = "miss" /\ proc[p].seen = "absent"

\* C16: GET /health has answered 200 only when both probes have succeeded,
\* and when a probe has failed its answer is 503 with status 'degraded' and
\* the status of each dependency
C16_HealthyOnlyAfterBothProbes ==
  \A h \in Procs :
    LET o == health[h]
    IN /\ (o.reply.code = 200) => (o.redisProbe = "ok" /\ o.searchProbe = "ok")
       /\ (o.pc = "replied" /\ (o.redisProbe = "error" \/ o.searchProbe = "error")) =>
            /\ o.reply.code = 503 /\ o.reply.status = "degraded"
            /\ o.reply.redis = o.redis /\ o.reply.search = o.search

\* C17: a request to POST /api/ingest whose x-api-key is missing or is not
\* the valid key is answered 401 and nothing else happens, whether or not its
\* body is valid; every request that is inside an ingestion or has made a
\* call carries the valid key
C17_IngestRequiresApiKey ==
  \A p \in Procs :
    LET r == proc[p]
    IN r.kind = "ingest" =>
         /\ (r.apiKey # validApiKey) =>
              /\ r.pc = "rejected" /\ r.reply = "401"
              /\ r.calls = <<>> /\ r.customerData = JNull
         /\ (r.pc \in IngestPcs \/ r.calls # <<>>) => r.apiKey = validApiKey
         /\ (r.reply = "400") => r.apiKey = validApiKey

\* a request with a wrong key and a body that validation would refuse has
\* been answered 401
C17_Witness ==
  \E p \in Procs :
    /\ proc[p].kind = "ingest" /\ proc[p].apiKey = "other"
    /\ ~ValidIngestBody(proc[p].customerId)
    /\ proc[p].reply = "401"

\* C18: normalizeQuery applied to its own result gives that result again
C18_NormalizeIsIdempotent ==
  (pure.op = "normalized") => (pure.twice = pure.once)

\* C19: createCacheKey gives equal keys to equal pairs of normalized query
\* and scope, and different keys to two pairs whose scopes differ, one of
\* them absent or not, whatever the two queries are
C19_KeysSeparateScopes ==
  (pure.op = "keys") =>
    /\ (pure.query1 = pure.query2 /\ pure.scope1 = pure.scope2) => pure.key1 = pure.key2
    /\ (pure.scope1 # pure.scope2) => pure.key1 # pure.key2

\* keys were made for one query text without a scope and within a scope
C19_Witness ==
  /\ pure.op = "keys"
  /\ pure.query1 = pure.query2 /\ pure.query1 # <<>>
  /\ pure.scope1 = NoScope /\ pure.scope2 # NoScope
  /\ pure.key1 # pure.key2

\* C20: a request whose generation returned an empty answer, no cited path
\* or a confidence that is not within [0,1] fails: it holds no response, and
\* nothing made from that output is returned or stored
C20_InvalidGenerationFails ==
  \A p \in Procs :
    LET r == proc[p]
    IN (r.generated # NoGeneration /\ ~validateAnswer(r.generated)) =>
         /\ r.pc = "failed"
         /\ r.response = NoResponse
         /\ "cacheSet" \notin SeqRange(r.calls)

\* C21: generateAnswer throws whenever the content of the completion is not
\* JSON or lacks the answer, the cited paths, the explanation or the
\* confidence, and a result it returns has all four
C21_MalformedCompletionFails ==
  (pure.op = "generated") =>
    /\ (\/ pure.content.kind = "text"
        \/ pure.content.answer.t # "string"
        \/ pure.content.dataPath.t # "array"
        \/ pure.content.explanation.t # "string"
        \/ pure.content.confidence.t # "number") => pure.threw
    /\ ~pure.threw =>
         /\ pure.result.answer.t # "undefined"
         /\ pure.result.dataPath.t # "undefined"
         /\ pure.result.explanation.t # "undefined"
         /\ pure.result.llmConfidence.t # "undefined"

\* the position of the first result with a data path
FirstAt(results, path) ==
  CHOOSE i \in 1..Len(results) :
    results[i].dataPath = path /\ \A j \in 1..(i - 1) : results[j].dataPath # path

\* C22: the dataPath of a response built from a generation is the list of
\* paths the generator cited when it cited one; otherwise it holds each
\* path of the search results once, ordered by first occurrence
C22_DataPathFallsBackToSources ==
  \A p \in Procs :
    LET r == proc[p]
        paths == r.response.dataPath
    IN (r.generated # NoGeneration /\ r.response # NoResponse) =>
         IF Len(r.generated.dataPath) > 0
           THEN paths = r.generated.dataPath
           ELSE /\ SeqRange(paths) = { r.results[i].dataPath : i \in 1..Len(r.results) }
                /\ \A i, j \in 1..Len(paths) :
                     i < j => /\ paths[i] # paths[j]
                              /\ FirstAt(r.results, paths[i]) < FirstAt(r.results, paths[j])

\* the generator cited nothing and the results have two paths, one of them
\* more than once
C22_Witness ==
  \E p \in Procs :
    /\ proc[p].generated # NoGeneration /\ proc[p].generated.dataPath = <<>>
    /\ Len(proc[p].response.dataPath) = 2
    /\ Len(proc[p].results) > 2

\* C23: chunkText does not run with an overlap that is not smaller than the
\* chunk size: no window is cut with such a configuration
C23_OverlapNotBelowSizeIsRejected ==
  (pure.op = "chunk" /\ pure.overlap >= pure.size) => pure.chunks = <<>>

\* a run of chunkText whose overlap is smaller than its chunk size
ValidChunking == pure.op = "chunk" /\ pure.overlap < pure.size

\* the stream rebuilt from the windows: the first one whole, every later one
\* without its first overlap tokens
Rebuilt(chunks, overlap) ==
  Concat([k \in 1..Len(chunks) |->
            IF k = 1 THEN chunks[k] ELSE SubSeq(chunks[k], overlap + 1, Len(chunks[k]))])

\* C24: with 0 <= overlap < size chunkText ends; it cuts at most one window
\* per token, and when it has ended every token position lies in a window,
\* the windows without their first overlap tokens rebuild the stream, and
\* exactly one window, the last, reaches the end of the stream
C24_ChunkingTerminatesAndCovers ==
  /\ [](ValidChunking =>
         /\ Len(pure.chunks) <= Len(pure.tokens)
         /\ pure.done =>
              /\ Rebuilt(pure.chunks, pure.overlap) = pure.tokens
              /\ \A i \in 1..Len(pure.tokens) :
                   \E k \in 1..Len(pure.chunks) :
                     pure.starts[k] < i /\ i <= pure.starts[k] + Len(pure.chunks[k])
              /\ pure.tokens # <<>> =>
                   { k \in 1..Len(pure.chunks) :
                       pure.starts[k] + Len(pure.chunks[k]) = Len(pure.tokens) }
                     = {Len(pure.chunks)})
  /\ (ValidChunking ~> (ValidChunking /\ pure.done))

\* a run has ended with three windows, the last shorter than the chunk size
C24_Witness ==
  /\ ValidChunking /\ pure.done /\ pure.overlap > 0
  /\ Len(pure.chunks) = 3
  /\ Len(pure.chunks[3]) < pure.size

\* C25: with 0 <= overlap < size window k (from 0) starts at token
\* k*(size-overlap), every window but the last has size tokens and its last
\* overlap tokens are the first overlap tokens of the next window; 250
\* tokens with size 100 and overlap 20 give three windows, at 0, 80 and 160
C25_WindowsStartAtStride ==
  ValidChunking =>
    /\ \A k \in 1..Len(pure.chunks) :
         /\ pure.starts[k] = (k - 1) * (pure.size - pure.overlap)
         /\ pure.chunks[k] =
              SubSeq(pure.tokens, pure.starts[k] + 1,
                     Min(pure.starts[k] + pure.size, Len(pure.tokens)))
    /\ \A k \in 1..(Len(pure.chunks) - 1) :
         /\ Len(pure.chunks[k]) = pure.size
         /\ SubSeq(pure.chunks[k], pure.size - pure.overlap + 1, pure.size)
              = SubSeq(pure.chunks[k + 1], 1, pure.overlap)
    /\ (pure.done /\ Len(pure.tokens) = 250 /\ pure.size = 100 /\ pure.overlap = 20) =>
         pure.starts = <<0, 80, 160>>

\* the run over 250 tokens with size 100 and overlap 20 has ended
C25_Witness ==
  /\ pure.op = "chunk" /\ pure.done
  /\ Len(pure.tokens) = 250 /\ pure.size = 100 /\ pure.overlap = 20
  /\ Len(pure.chunks) = 3

\* C26: a run of chunkText over a stream of at most size tokens, the empty
\* stream among them, has ended with one chunk, which is the whole stream
C26_ShortTextIsOneChunk ==
  (pure.op = "chunk" /\ pure.done /\ Len(pure.tokens) <= pure.size) =>
    pure.chunks = <<pure.tokens>>

\* a number of thousandths held between 0 and 1
Between01(x) == IF x < 0 THEN 0 ELSE IF x > 1000 THEN 1000 ELSE x

\* C27: the final confidence is 0.45*clamp01(similarity) +
\* 0.35*clamp01(lexical/100) + 0.20*clamp01(llmSelf) rounded to 2 decimals:
\* a number of hundredths in [0,1] within half a hundredth of the weighted
\* sum, 1.00 for (1.0, 100, 1.0) and 0.00 for (0, 0, 0); the weights reported
\* are 0.45, 0.35 and 0.20, whose sum is 1
C27_FinalConfidenceIsWeightedSum ==
  (pure.op = "confidence") =>
    LET in == pure.inputs
        final == pure.result.finalConfidence
        sum == 450 * Between01(in.similarity) + 350 * Between01(in.lexical \div 100)
                 + 200 * Between01(in.llm)
    IN /\ final.tag = "num"
       /\ final.milli >= 0 /\ final.milli <= 1000
       /\ final.milli % 10 = 0
       /\ 1000 * final.milli - sum <= 5000 /\ sum - 1000 * final.milli <= 5000
       /\ (in.similarity = 1000 /\ in.lexical = 100000 /\ in.llm = 1000) => final.milli = 1000
       /\ (in.similarity = 0 /\ in.lexical = 0 /\ in.llm = 0) => final.milli = 0
       /\ pure.result.weights = [similarity |-> 450, lexical |-> 350, llm |-> 200]
       /\ pure.result.weights.similarity + pure.result.weights.lexical
            + pure.result.weights.llm = 1000

\* the confidence of three scores outside their nominal ranges was computed
C27_Witness ==
  /\ pure.op = "confidence"
  /\ pure.inputs.similarity > 1000 /\ pure.inputs.lexical < 0 /\ pure.inputs.llm > 1000
  /\ pure.result.finalConfidence.milli = 650

\* C28: the components of the result are the normalized scores themselves;
\* for similarity 0.89, lexical 38.5 and llmSelf 0.92 they are 0.89, 0.385
\* and 0.92 and the final confidence is 0.72
C28_ComponentsAreNormalizedInputs ==
  (pure.op = "confidence") =>
    LET in == pure.inputs
        c == pure.result.components
    IN /\ c.similarity.milli = Between01(in.similarity)
       /\ c.lexical.milli = Between01(in.lexical \div 100)
       /\ c.llm.milli = Between01(in.llm)
       /\ (in.similarity = 890 /\ in.lexical = 38500 /\ in.llm = 920) =>
            /\ c.similarity.milli = 890 /\ c.lexical.milli = 385 /\ c.llm.milli = 920
            /\ pure.result.finalConfidence.milli = 720

\* x is n rounded to hundredths, both in thousandths
RoundedToHundredths(x, n) == x % 10 = 0 /\ x - n <= 5 /\ n - x < 5

\* C28 as amended: the components of the result are the normalized scores
\* rounded to 2 decimals; for similarity 0.89, lexical 38.5 and llmSelf 0.92
\* they are 0.89, 0.39 and 0.92 and the final confidence is 0.72
C28_ComponentsAreRoundedNormalizedInputs ==
  (pure.op = "confidence") =>
    LET in == pure.inputs
        c == pure.result.components
    IN /\ RoundedToHundredths(c.similarity.milli, Between01(in.similarity))
       /\ RoundedToHundredths(c.lexical.milli, Between01(in.lexical \div 100))
       /\ RoundedToHundredths(c.llm.milli, Between01(in.llm))
       /\ (in.similarity = 890 /\ in.lexical = 38500 /\ in.llm = 920) =>
            /\ c.similarity.milli = 890 /\ c.lexical.milli = 390 /\ c.llm.milli = 920
            /\ pure.result.finalConfidence.milli = 720

\* the confidence of 0.89, 38.5 and 0.92 was computed, with a lexical
\* component that differs from the normalized score
C28_Witness ==
  /\ pure.op = "confidence"
  /\ pure.inputs.similarity = 890 /\ pure.inputs.lexical = 38500 /\ pure.inputs.llm = 920
  /\ pure.result.components.lexical.milli # pure.inputs.lexical \div 100

\* C29: a query-cache hit returns at once.  The step that finds the entry
\* ends the request with the cache read as its only call, and neither that
\* step nor any later step of the request changes the cache (entries, TTLs,
\* the ingestion marker), the index or the ingestions begun
C29_CacheHitReturnsAtOnce ==
  [][\A p \in Procs :
       /\ (proc[p].hit # "hit" /\ proc'[p].hit = "hit") =>
            /\ proc'[p].pc = "done"
            /\ proc'[p].calls = <<"cacheGet">>
            /\ cache' = cache /\ index' = index /\ ingests' = ingests
       /\ (proc[p].hit = "hit" /\ proc'[p] # proc[p]) =>
            /\ proc'[p] = IdleProc
            /\ cache' = cache /\ index' = index /\ ingests' = ingests]_vars

\* a scoped request was served from the cache while the marker of its
\* customer and the customer's documents were in place
C29_Witness ==
  \E p \in Procs :
    /\ proc[p].hit = "hit"
    /\ proc[p].customerId = CustA
    /\ Has(indexedCacheKey(CustA))
    /\ IndexedOf(CustA) # {}

\* the calls a request has made so far, failed ones included
CallsOf(p) == { proc[p].calls[i] : i \in 1..Len(proc[p].calls) }

\* the ingestion of p has resolved its source data, or failed doing so
DataResolved(p) ==
  /\ "ensureIndex" \in CallsOf(p)
  /\ proc[p].failedAt \notin {"ensureIndex", "dataGet"}
  /\ proc[p].pc \notin {"dataGet", "blobGet"}

\* C30: an ingestion contacts the object store exactly when forceReindex is
\* true, the customer-data cache is disabled or customer:<id>:data held no
\* copy; with the cache enabled the fetched copy is written to
\* customer:<id>:data with a TTL of 24 hours, so the entry, while it lasts,
\* holds the data just fetched; without forceReindex a copy that is present
\* is the data used and the object store is not contacted
C30_SourceIsFetchedWhenForcedOrUncached ==
  \A p \in Procs :
    LET r == proc[p]
        key == dataCacheKey(r.customerId)
        mustFetch == r.forceReindex \/ ~flags.customerDataCache \/ r.dataSeen = "absent"
    IN /\ ("blobGet" \in CallsOf(p)) => mustFetch
       /\ DataResolved(p) => (("blobGet" \in CallsOf(p)) <=> mustFetch)
       /\ ("dataGet" \in CallsOf(p)) => (flags.customerDataCache /\ ~r.forceReindex)
       /\ ("dataSet" \in CallsOf(p)) => (flags.customerDataCache /\ "blobGet" \in CallsOf(p))
       /\ ( /\ DataResolved(p) /\ flags.customerDataCache /\ "blobGet" \in CallsOf(p)
            /\ r.failedAt \notin {"blobGet", "dataSet"} /\ r.pc # "dataSet" ) =>
            /\ "dataSet" \in CallsOf(p)
            /\ Has(key) => cache[key] = JsonText("data", r.customerData, DayTtl)
       /\ (r.dataSeen = "present") =>
            /\ "blobGet" \notin CallsOf(p)
            /\ Has(key) => r.customerData = cache[key].value

\* a forced ingestion found another copy cached than the one the blob gave,
\* and has written the edited data over it
C30_Witness ==
  \E p \in Procs :
    /\ proc[p].forceReindex /\ proc[p].stale
    /\ "dataSet" \in CallsOf(p) /\ proc[p].failedAt = "none"
    /\ Has(dataCacheKey(CustA))
    /\ cache[dataCacheKey(CustA)] = JsonText("data", EditedData, DayTtl)

\* C31: the chunks staged by one ingestion have pairwise different
\* identifiers, also when two leaves flatten to one path, so the index holds
\* as many documents of the scope as chunksCreated says
C31_StagedIdentifiersAreDistinct ==
  (pure.op = "ingested") =>
    /\ \A i, j \in 1..Len(pure.documents) :
         i # j => pure.documents[i].id # pure.documents[j].id
    /\ Cardinality(pure.indexed) = pure.chunksCreated

\* C32: within one ingestion the embedding calls all complete before the
\* first upsert.  An upsert is called only once every indexed field is
\* embedded, an ingestion whose embedding call failed has called no upsert,
\* and without forceReindex no step of a request that has not yet called an
\* upsert changes the index, so a failed embedding leaves it as it was
C32_EmbeddingsPrecedeUpserts ==
  [][\A p \in Procs :
       LET r == proc'[p]
           called == { r.calls[i] : i \in 1..Len(r.calls) }
       IN /\ ("indexDocuments" \in called) =>
               /\ r.embedded = NumIndexedFields(r.customerData)
               /\ r.failedAt # "embedChunks"
          /\ (r.failedAt = "embedChunks") => "indexDocuments" \notin called
          /\ (r # proc[p] /\ ~r.forceReindex /\ "indexDocuments" \notin called) =>
               index' = index]_vars

\* the embedding of the second field of an ingestion without forceReindex
\* failed while the index held documents
C32_Witness ==
  \E p \in Procs :
    /\ proc[p].failedAt = "embedChunks"
    /\ proc[p].embedded = 1
    /\ ~proc[p].forceReindex
    /\ index # {}

\* C33: an ingestion for a scope adds, overwrites and deletes only indexed
\* documents of that scope: every document that a step of the request puts
\* into the index or takes out of it carries the customerId of the request
C33_IngestionTouchesOnlyItsScope ==
  [][\A p \in Procs :
       (proc'[p] # proc[p]) =>
         \A d \in (index \ index') \cup (index' \ index) :
           d.customerId = proc[p].customerId]_vars

\* the cache keys whose entry a step creates, changes or deletes
KeysWritten ==
  { k \in DOMAIN cache \cup DOMAIN cache' :
      k \notin DOMAIN cache \/ k \notin DOMAIN cache' \/ cache[k] # cache'[k] }

\* C34: a request of the ingest route, forced or not, writes no cache key
\* but customer:<id>:data: it creates, changes and deletes neither the
\* ingestion marker nor a query-cache entry.  So a query that finds no marker
\* runs its own ingestion, also after a manual ingest of its customer
C34_IngestWritesOnlyItsDataKey ==
  [][\A p \in Procs :
       /\ ((proc[p].kind = "ingest" \/ proc'[p].kind = "ingest") /\ proc'[p] # proc[p]) =>
            KeysWritten \subseteq { dataCacheKey(proc[p].customerId) }
       /\ (proc'[p].kind = "query" /\ proc'[p].markerSeen = "absent") =>
            \/ proc'[p].pc = "ensureIndex"
            \/ \E i \in 1..Len(proc'[p].calls) : proc'[p].calls[i] = "ensureIndex"]_vars

\* after a manual ingest of customer "a" has returned and its documents are
\* indexed, a query for "a" finds no marker and begins an ingestion of its own
C34_Witness ==
  \E p \in Procs :
    /\ proc[p].kind = "query" /\ proc[p].customerId = CustA
    /\ proc[p].markerSeen = "absent" /\ proc[p].pc = "ensureIndex"
    /\ ingests[CustA].returned = 1
    /\ IndexedOf(CustA) # {}
    /\ Has(dataCacheKey(CustA))

\* the connection attempts in flight
InFlight(s) == { a \in 1..Len(s.attempts) : s.attempts[a] = "pending" }

\* a step of the service as the connection discipline allows it
DisciplinedStep ==
  LET s == redisService
      t == redisService'
  IN /\ Cardinality(InFlight(t)) <= 1
     /\ \A c \in Procs :
          (s.callers[c].pc = "idle" /\ t.callers[c].pc \in {"awaiting", "waiting"}) =>
            IF InFlight(s) # {}
              THEN t.callers[c].promise \in InFlight(s) /\ t.attempts = s.attempts
              ELSE (s.connectionPromise = 0) =>
                     /\ t.attempts = Append(s.attempts, "pending")
                     /\ t.callers[c].promise = Len(t.attempts)
     /\ s.isConnected => t.attempts = s.attempts
     /\ (t.connectionPromise # 0 /\ t.attempts[t.connectionPromise] # "pending") =>
          \E c \in Procs : /\ t.callers[c].pc = "awaiting"
                           /\ t.callers[c].promise = t.connectionPromise

\* C35: whatever the interleaving of get, set, exists, delete and connect on
\* a client that is not yet connected, at most one connection attempt is in
\* flight and a caller that arrives meanwhile waits for that attempt; once
\* connected no further client is created; and after a failed attempt the
\* in-flight marker is cleared as soon as the caller that started the attempt
\* goes on, so that a later call starts a new attempt
C35_OneConnectionAttemptInFlight == [][DisciplinedStep]_vars

\* the same for the copy of the class that keeps connectionPromise
GuardedCopyIsDisciplined == [][redisService.copy = "guarded" => DisciplinedStep]_vars

\* C36: after SIGTERM or SIGINT the process exits.  With a server, the
\* cache connection is torn down and the tokenizer released only after the
\* HTTP server has closed, an error logged in either step does not keep the
\* close callback from exiting with code 0, and the timer exits with code 1
\* when it fires first; without a server the signal exits with code 0 at once
C36_SignalLeadsToExit ==
  /\ [](/\ \A i \in 1..Len(server.callbacks) :
             server.callbacks[i] # "registered" => server.server = "closed"
        /\ (server.redis = "closed" \/ server.tokenizer = "released"
              \/ "Error disconnecting Redis" \in server.log
              \/ "Error cleaning up tokenizer" \in server.log) => server.server = "closed"
        /\ (server.signals > 0 /\ server.server = "null") =>
             (server.pc = "exited" /\ server.exitCode = 0 /\ server.exitBy = "shutdown")
        /\ (server.exitBy = "callback") =>
             (server.exitCode = 0 /\ server.server = "closed")
        /\ (server.exitBy = "timer") => server.exitCode = 1
        /\ (server.pc = "exited" /\ server.signals > 0 /\ server.server # "closed"
              /\ server.server # "null") =>
             (server.exitBy = "timer" /\ server.exitCode = 1))
  /\ ((server.signals > 0) ~> (server.pc = "exited"))

\* the HTTP server closed after a signal, both cleanup steps failed and were
\* logged, and the process exited with code 0
C36_Witness ==
  /\ server.pc = "exited" /\ server.exitCode = 0 /\ server.exitBy = "callback"
  /\ {"Error disconnecting Redis", "Error cleaning up tokenizer"} \subseteq server.log

RECURSIVE CountLeaves(_)
\* the string, number and boolean leaves of a JSON value
CountLeaves(data) ==
  CASE data.t = "array" ->
         IF data.items = <<>> THEN 0
         ELSE CountLeaves(Head(data.items)) + CountLeaves(JArray(Tail(data.items)))
    [] data.t = "object" ->
         IF data.entries = <<>> THEN 0
         ELSE CountLeaves(Head(data.entries).v) + CountLeaves(JObject(Tail(data.entries)))
    [] data.t \in {"string", "number", "boolean"} -> 1
    [] OTHER -> 0

RECURSIVE ChunksOfLongLeaves(_)
\* the number of chunks of the leaves of at least 10 characters
ChunksOfLongLeaves(flat) ==
  IF flat = <<>> THEN 0
  ELSE (IF Len(Head(flat).value) >= 10
          THEN Len(chunkText(Head(flat).value, chunkSize, chunkOverlap)) ELSE 0)
       + ChunksOfLongLeaves(Tail(flat))

\* c is a run of consecutive characters of v
IsPartOf(c, v) ==
  \E from \in 1..(Len(v) + 1) :
    from + Len(c) - 1 <= Len(v) /\ SubSeq(v, from, from + Len(c) - 1) = c

\* C37: no indexed document carries content of a flattened leaf whose
\* stringified value has fewer than 10 characters: every document is a part
\* of a leaf of at least 10 characters at its path, and there are as many
\* documents as those leaves have chunks.  The short leaves are still counted
\* in documentsProcessed, which is the number of all leaves
C37_ShortLeavesAreNotIndexed ==
  (pure.op = "ingested") =>
    /\ \A d \in pure.indexed :
         \E i \in 1..Len(pure.flattenedData) :
           /\ Len(pure.flattenedData[i].value) >= 10
           /\ pure.flattenedData[i].path = d.dataPath
           /\ IsPartOf(d.content, pure.flattenedData[i].value)
    /\ Len(pure.documents) = ChunksOfLongLeaves(pure.flattenedData)
    /\ pure.chunksCreated = ChunksOfLongLeaves(pure.flattenedData)
    /\ pure.documentsProcessed = CountLeaves(pure.data)

\* an ingestion of a short and a long leaf: the long one is indexed, both
\* are counted
C37_Witness ==
  /\ pure.op = "ingested"
  /\ \E i, j \in 1..Len(pure.flattenedData) :
       /\ Len(pure.flattenedData[i].value) < 10
       /\ Len(pure.flattenedData[j].value) >= 10
       /\ \A d \in pure.indexed : d.dataPath # pure.flattenedData[i].path
  /\ pure.indexed # {}
  /\ pure.documentsProcessed = 2

RECURSIVE LeafPairs(_, _, _)
\* the pairs of the leaves of a JSON value in document order, the path of a
\* nested key joined to its parent's with a dot and an index appended as
\* [i]; top says that the value is the whole input
LeafPairs(data, path, top) ==
  CASE data.t = "array" ->
         Concat([i \in 1..Len(data.items) |->
            LeafPairs(data.items[i],
                      path \o <<"[">> \o IndexDigits(i - 1) \o <<"]">>, FALSE)])
    [] data.t = "object" ->
         Concat([i \in 1..Len(data.entries) |->
            LeafPairs(data.entries[i].v,
                      IF top THEN data.entries[i].k
                             ELSE path \o <<".">> \o data.entries[i].k, FALSE)])
    [] data.t \in {"string", "number", "boolean"} ->
         << [path |-> path, value |-> data.v] >>
    [] OTHER -> <<>>

\* C38: flattenData gives one pair per string, number or boolean leaf, in
\* document order, none for null; the keys of nested mappings are joined with
\* a dot, indices are appended as [i] without one, and only a top-level key
\* or index has no separator before it
C38_FlattenJoinsKeysWithDots ==
  (pure.op = "ingested") => pure.flattenedData = LeafPairs(pure.data, <<>>, TRUE)

RECURSIVE SumSupplied(_)
\* the sum of the lexical scores where the provider supplied one, of the
\* similarity scores where it did not
SumSupplied(rs) ==
  IF rs = <<>> THEN 0
  ELSE (IF Head(rs).rerankerScore.tag = "num"
          THEN Head(rs).rerankerScore.milli ELSE Head(rs).score.milli)
       + SumSupplied(Tail(rs))

\* C39: avgLexical is the mean over all results of the lexical score where
\* the provider supplied one, a supplied 0 included, and of the similarity
\* score only where it left the lexical score out; for no results both
\* averages are 0 and nothing is thrown
C39_AvgLexicalUsesSuppliedScores ==
  (pure.op = "retrieved") =>
    /\ ~pure.thrown
    /\ IF pure.results = <<>>
         THEN pure.avgLexicalScore = Num(0) /\ pure.avgSimilarityScore = Num(0)
         ELSE pure.avgLexicalScore = Num(SumSupplied(pure.results) \div Len(pure.results))

\* C40: retryWithBackoff with maxRetries >= 1 calls fn at most maxRetries
\* times and never after the first success; it returns the value of the
\* first success and, when every attempt failed, rethrows the error of the
\* last one; a failed attempt that is not the last is followed by a wait of
\* baseDelay * 2^attempt and the last one by none.  With maxRetries <= 0 fn
\* is not called and the call fails with 'Max retries exceeded'
C40_RetryIsBoundedAndBacksOff ==
  (pure.op = "retry") =>
    LET n == Len(pure.outcomes)
        failures == { i \in 1..n : pure.outcomes[i] = "error" }
    IN /\ (pure.maxRetries >= 1) =>
            /\ pure.calls <= pure.maxRetries
            /\ \A i \in 1..n : pure.outcomes[i] = "ok" => (i = n /\ pure.calls = n)
            /\ (pure.pc = "returned") <=> (n > 0 /\ pure.outcomes[n] = "ok")
            /\ (pure.pc = "returned") => pure.result = n - 1
            /\ (pure.pc = "thrown") <=> (Cardinality(failures) = pure.maxRetries)
            /\ (pure.pc = "thrown") =>
                 pure.error = [message |-> "fn", attempt |-> pure.maxRetries - 1]
            /\ \A i \in 1..Len(pure.waits) : pure.waits[i] = pure.baseDelay * 2 ^ (i - 1)
            /\ Len(pure.waits) = IF pure.pc \in {"thrown", "calling", "returned"}
                                   THEN pure.calls - 1
                                   ELSE Cardinality(failures)
       /\ (pure.maxRetries <= 0) =>
            /\ pure.calls = 0 /\ pure.waits = <<>> /\ pure.pc \in {"test", "thrown"}
            /\ (pure.pc = "thrown") => pure.error.message = "Max retries exceeded"

\* three attempts failed: two waits of baseDelay and 2 * baseDelay, the error
\* of the third attempt is rethrown
C40_Witness ==
  /\ pure.op = "retry" /\ pure.pc = "thrown" /\ pure.maxRetries = 3
  /\ pure.calls = 3 /\ pure.waits = <<1000, 2000>>
  /\ pure.error = [message |-> "fn", attempt |-> 2]

\* a call with maxRetries 0 has failed without calling fn
C40_WitnessNoRetries ==
  /\ pure.op = "retry" /\ pure.pc = "thrown" /\ pure.maxRetries = 0
  /\ pure.calls = 0 /\ pure.error.message = "Max retries exceeded"
====
